---- MODULE Spec2Model ----
(***************************************************************************)
(* Mod provider subsystem of hytale_server_manager: the provider registry  *)
(* (ModProviderRegistry.ts), the orchestration service                     *)
(* (ModProviderService.ts) and the state of the two provider adapters      *)
(* (ModtaleProvider, CurseForgeProvider) that the service drives.          *)
(*                                                                         *)
(* Node's execution model is kept: code between two awaits is one atomic   *)
(* action; every await of an I/O result (settings store, upstream HTTP) is *)
(* a point where other handlers may run.  Upstream and settings-store      *)
(* replies are the environment's choice.                                   *)
(***************************************************************************)
EXTENDS Integers, Sequences, FiniteSets, TLC

VARIABLES
  initialized,   \* ModProviderService.initialized
  providers,     \* ModProviderRegistry.providers: Map in insertion order, <<[id, inst]>>
  adapters,      \* heap of adapter objects ever constructed, by instance number
  settings,      \* settings store: provider id -> stored "<id>.apiKey" ("" = absent)
  initCalls,     \* ModProviderService.initialize() calls
  setCalls,      \* ModProviderService.setProviderApiKey() calls
  discoveries,   \* CurseForgeProvider.discoverHytaleGame() runs
  searches,      \* ModProviderRegistry.searchAll() calls
  opCalls,       \* per-provider service operation calls, downloadForInstallation included
  adapterCalls,  \* adapter functions applied to upstream payloads: <<[fn, input, output]>>
  backend,       \* what the server answers to the web client: its configuration epoch
  providersCache,\* modProviderApi.ts: providersCache (<<>> is null)
  cacheLookups,  \* getCachedProviders() calls of the web client
  configures,    \* the store's configureProvider() calls
  store,         \* modProviderStore.ts: the zustand state
  storeSearches  \* the store's search() calls

\* the server side and the web client
serverVars == <<initialized, providers, adapters, settings, initCalls, setCalls,
                discoveries, searches, opCalls, adapterCalls>>

clientVars == <<backend, providersCache, cacheLookups, configures, store, storeSearches>>

vars == <<initialized, providers, adapters, settings, initCalls, setCalls,
          discoveries, searches, opCalls,
          adapterCalls, clientVars>>

-----------------------------------------------------------------------------
(* Bounds of the model *)

MaxInitCalls == 2
MaxSetCalls == 2
MaxSearches == 1
MaxOpCalls == 1
MaxLookups == 2
MaxConfigures == 1
MaxStoreSearches == 2

(* Values *)

KnownIds == {"modtale", "curseforge"}
\* provider ids a caller may pass: the two known ones and one nobody registered
RequestIds == KnownIds \cup {"nexus"}
\* API keys are non-empty strings (routes/mods.ts:50 rejects an empty one)
Keys == {"k1", "k2"}
\* null / undefined / '' credential: all falsy in the code's tests
NoKey == ""
\* a null hytaleGameId; `!this.hytaleGameId` also reads 0 as unset
NoGame == 0

Truthy(s) == s # NoKey

-----------------------------------------------------------------------------
(* CurseForgeProvider: private state helpers *)

\* part_001:136  private static readonly HYTALE_GAME_ID = 70216
HYTALE_GAME_ID == 70216

\* Category names the upstream may send, with the keywords that
\* name.toLowerCase().includes(kw) finds in each (part_001:246-256)
NameKeywords ==
  [ Mods      |-> {"mod"},
    Modpacks  |-> {"mod", "modpack", "pack"},
    Worlds    |-> {"world"},
    Bukkit    |-> {} ]

Includes(name, kw) == kw \in NameKeywords[name]

\* the if / else-if chain of loadCategories: the classification a class
\* category's name selects, "" when no branch matches (no map entry is set)
ClassifyName(name) ==
  IF Includes(name, "mod") /\ ~Includes(name, "modpack") THEN "PLUGIN"
  ELSE IF Includes(name, "modpack") \/ Includes(name, "pack") THEN "MODPACK"
  ELSE IF Includes(name, "resource") \/ Includes(name, "texture") \/ Includes(name, "art")
       THEN "ART"
  ELSE IF Includes(name, "world") \/ Includes(name, "save") \/ Includes(name, "map")
       THEN "SAVE"
  ELSE IF Includes(name, "data") THEN "DATA"
  ELSE ""

\* Map.prototype.set on an insertion-ordered map kept as a sequence of
\* [k, v]: an existing key keeps its place, a new key goes last
MapSet(m, k, v) ==
  IF \E i \in 1..Len(m) : m[i].k = k
  THEN [i \in 1..Len(m) |-> IF m[i].k = k THEN [k |-> k, v |-> v] ELSE m[i]]
  ELSE Append(m, [k |-> k, v |-> v])

MapHas(m, k) == \E i \in 1..Len(m) : m[i].k = k

MapGet(m, k) == m[CHOOSE i \in 1..Len(m) : m[i].k = k].v

\* the for-loop of loadCategories over this.categories
RECURSIVE BuildClassificationMap(_, _)
BuildClassificationMap(map, cats) ==
  IF cats = <<>> THEN map
  ELSE LET cat == Head(cats)
           cls == ClassifyName(cat.name)
       IN BuildClassificationMap(
            IF cat.isClass /\ cls # "" THEN MapSet(map, cat.id, cls) ELSE map,
            Tail(cats))

\* upstream replies to GET /v1/games: HTTP failure, or a list in which
\* the find() of discoverHytaleGame matches a game with id `hytale`
\* (NoGame: no game matches)
GamesReplies ==
  { [ok |-> FALSE, hytale |-> NoGame],
    [ok |-> TRUE,  hytale |-> NoGame],
    [ok |-> TRUE,  hytale |-> 432] }

\* upstream replies to GET /v1/categories?gameId=..
CategoriesReplies ==
  { [ok |-> FALSE, data |-> <<>>],
    [ok |-> TRUE,  data |-> << [id |-> 1, name |-> "Mods", isClass |-> TRUE],
                               [id |-> 2, name |-> "Worlds", isClass |-> TRUE] >>] }

-----------------------------------------------------------------------------
(* Adapter objects *)

\* new ModtaleProvider(): apiKey = null.  The CurseForge-only fields are
\* carried, unused, so that all adapter objects have one shape.
NewModtaleProvider ==
  [id |-> "modtale", apiKey |-> NoKey, hytaleGameId |-> NoGame,
   categories |-> <<>>, classificationMap |-> <<>>]

\* new CurseForgeProvider(): apiKey = null, hytaleGameId = null,
\* categories = [], classificationMap = new Map()
NewCurseForgeProvider ==
  [id |-> "curseforge", apiKey |-> NoKey, hytaleGameId |-> NoGame,
   categories |-> <<>>, classificationMap |-> <<>>]

\* isConfigured(): !!this.apiKey, on both adapters
isConfigured(a) == Truthy(a.apiKey)

\* the synchronous part of adapter.setApiKey(key): this.apiKey = apiKey
AdapterSetApiKey(a, key) == [a EXCEPT !.apiKey = key]

\* the synchronous part of adapter.initialize(config):
\* if (config.apiKey) this.apiKey = config.apiKey
AdapterInitialize(a, key) == IF Truthy(key) THEN [a EXCEPT !.apiKey = key] ELSE a

\* discoverHytaleGame() after the games request settled
DiscoverGamesSettled(a, reply) ==
  IF reply.ok /\ reply.hytale # NoGame
  THEN [a EXCEPT !.hytaleGameId = reply.hytale]
  ELSE [a EXCEPT !.hytaleGameId = HYTALE_GAME_ID]

\* loadCategories() after the categories request settled
LoadCategoriesSettled(a, reply) ==
  IF reply.ok
  THEN [a EXCEPT !.categories = reply.data,
                 !.classificationMap = BuildClassificationMap(@, reply.data)]
  ELSE a

-----------------------------------------------------------------------------
(* ModProviderRegistry *)

\* registerProvider(provider): this.providers.set(provider.id, provider)
registerProvider(reg, id, inst) == MapSet(reg, id, inst)

hasProvider(reg, id) == MapHas(reg, id)

\* getProvider(providerId): the instance number, 0 for undefined
getProvider(reg, id) == IF MapHas(reg, id) THEN MapGet(reg, id) ELSE 0

\* getAllProviders(): Array.from(this.providers.values())
getAllProviders(reg) == [i \in 1..Len(reg) |-> reg[i].v]

\* Array.prototype.filter(p => p.isConfigured()) over instance numbers
RECURSIVE FilterConfigured(_, _)
FilterConfigured(insts, heap) ==
  IF insts = <<>> THEN <<>>
  ELSE IF isConfigured(heap[Head(insts)])
       THEN <<Head(insts)>> \o FilterConfigured(Tail(insts), heap)
       ELSE FilterConfigured(Tail(insts), heap)

\* the same without the filter
getConfiguredProvidersMutantAll(reg, heap) == getAllProviders(reg)

\* getConfiguredProviders(): getAllProviders().filter(p => p.isConfigured())
getConfiguredProviders(reg, heap) == FilterConfigured(getAllProviders(reg), heap)

-----------------------------------------------------------------------------
(* CurseForgeProvider.discoverHytaleGame(): one run per call *)

\* the call itself, up to its first await: returns at once without an API
\* key, else issues GET /v1/games
NewDiscovery(heap, inst) ==
  [inst |-> inst, stage |-> IF Truthy(heap[inst].apiKey) THEN "games" ELSE "done"]

\* the same without the catch: a failed request rejects the run
AfterGamesMutantNoCatch(reply) == IF reply.ok THEN "categories" ELSE "rejected"

\* where a run goes when its games request settled: a failure is caught
\* inside discoverHytaleGame and ends the run normally
AfterGames(reply) == IF reply.ok THEN "categories" ELSE "done"

\* the games request settles: the game id is set (found, or the known id);
\* after a successful request loadCategories() issues GET /v1/categories
DiscoverGames(d) ==
  /\ d \in 1..Len(discoveries)
  /\ discoveries[d].stage = "games"
  /\ \E reply \in GamesReplies :
       LET inst == discoveries[d].inst
           a    == DiscoverGamesSettled(adapters[inst], reply)
       IN /\ adapters' = [adapters EXCEPT ![inst] = a]
          /\ discoveries' = [discoveries EXCEPT ![d].stage =
                               IF a.hytaleGameId # NoGame THEN AfterGames(reply) ELSE "done"]
  /\ UNCHANGED <<initialized, providers, settings, initCalls, setCalls,
                 searches, opCalls,
                 adapterCalls,
                 clientVars>>

\* the categories request settles; a failure is logged and swallowed
LoadCategories(d) ==
  /\ d \in 1..Len(discoveries)
  /\ discoveries[d].stage = "categories"
  /\ \E reply \in CategoriesReplies :
       LET inst == discoveries[d].inst
       IN adapters' = [adapters EXCEPT ![inst] = LoadCategoriesSettled(@, reply)]
  /\ discoveries' = [discoveries EXCEPT ![d].stage = "done"]
  /\ UNCHANGED <<initialized, providers, settings, initCalls, setCalls,
                 searches, opCalls,
                 adapterCalls,
                 clientVars>>

\* `await this.discoverHytaleGame()` may resume (0: nothing was awaited)
DiscoveryDone(d) == IF d = 0 THEN TRUE ELSE discoveries[d].stage = "done"

-----------------------------------------------------------------------------
(* ModProviderService.initialize() *)

\* the same without the test of the flag
InitializeEnterMutantNoGuard(c) ==
  LET m == Len(adapters) + 1
      f == Len(adapters) + 2
  IN /\ adapters' = adapters \o <<NewModtaleProvider, NewCurseForgeProvider>>
     /\ providers' = registerProvider(registerProvider(providers, "modtale", m),
                                      "curseforge", f)
     /\ initCalls' = Append(initCalls, [pc |-> "getModtale", noop |-> FALSE, wait |-> 0])

\* the call up to its first await.  With the flag set it returns at once;
\* otherwise both adapters are constructed and registered and
\* settings.get('modtale.apiKey') is awaited.
InitializeEnter(c) ==
  IF initialized
  THEN /\ initCalls' = Append(initCalls, [pc |-> "returned", noop |-> TRUE, wait |-> 0])
       /\ UNCHANGED <<providers, adapters>>
  ELSE LET m == Len(adapters) + 1
           f == Len(adapters) + 2
       IN /\ adapters' = adapters \o <<NewModtaleProvider, NewCurseForgeProvider>>
          /\ providers' = registerProvider(registerProvider(providers, "modtale", m),
                                           "curseforge", f)
          /\ initCalls' = Append(initCalls, [pc |-> "getModtale", noop |-> FALSE, wait |-> 0])

Initialize ==
  /\ Len(initCalls) < MaxInitCalls
  /\ InitializeEnter(Len(initCalls) + 1)
  /\ UNCHANGED <<initialized, settings, setCalls, discoveries, searches, opCalls,
                 adapterCalls,
                 clientVars>>

\* the application's one initialize() call at start-up
Startup ==
  /\ initCalls = <<>>
  /\ InitializeEnter(1)
  /\ UNCHANGED <<initialized, settings, setCalls, discoveries, searches, opCalls,
                 adapterCalls,
                 clientVars>>

\* settings.get('modtale.apiKey') settles.  A stored key is given to the
\* registry's current modtale adapter (initialize has no await of its own),
\* then settings.get('curseforge.apiKey') is awaited.
InitializeModtale(c) ==
  /\ c \in 1..Len(initCalls)
  /\ initCalls[c].pc = "getModtale"
  /\ \E ok \in BOOLEAN :
       IF ~ok
       THEN /\ initCalls' = [initCalls EXCEPT ![c].pc = "raised"]
            /\ UNCHANGED adapters
       ELSE LET modtaleKey == settings["modtale"]
                provider   == getProvider(providers, "modtale")
            IN /\ adapters' = IF Truthy(modtaleKey) /\ provider # 0
                              THEN [adapters EXCEPT ![provider] = AdapterInitialize(@, modtaleKey)]
                              ELSE adapters
               /\ initCalls' = [initCalls EXCEPT ![c].pc = "getCurseForge"]
  /\ UNCHANGED <<initialized, providers, settings, setCalls, discoveries,
                 searches, opCalls,
                 adapterCalls,
                 clientVars>>

\* settings.get('curseforge.apiKey') settles.  A stored key is given to the
\* registry's current curseforge adapter, whose initialize awaits a
\* discovery; without a key the bootstrap completes here.
InitializeCurseForge(c) ==
  /\ c \in 1..Len(initCalls)
  /\ initCalls[c].pc = "getCurseForge"
  /\ \E ok \in BOOLEAN :
       IF ~ok
       THEN /\ initCalls' = [initCalls EXCEPT ![c].pc = "raised"]
            /\ UNCHANGED <<adapters, discoveries, initialized>>
       ELSE LET curseForgeKey == settings["curseforge"]
                provider      == getProvider(providers, "curseforge")
            IN IF Truthy(curseForgeKey) /\ provider # 0
               THEN LET heap == [adapters EXCEPT ![provider] = AdapterInitialize(@, curseForgeKey)]
                    IN /\ adapters' = heap
                       /\ discoveries' = Append(discoveries, NewDiscovery(heap, provider))
                       /\ initCalls' = [initCalls EXCEPT ![c].pc = "initCurseForge",
                                                         ![c].wait = Len(discoveries) + 1]
                       /\ UNCHANGED initialized
               ELSE /\ initialized' = TRUE
                    /\ initCalls' = [initCalls EXCEPT ![c].pc = "returned"]
                    /\ UNCHANGED <<adapters, discoveries>>
  /\ UNCHANGED <<providers, settings, setCalls, searches, opCalls,
                 adapterCalls,
                 clientVars>>

\* the awaited curseforge initialize returned: this.initialized = true
InitializeDone(c) ==
  /\ c \in 1..Len(initCalls)
  /\ initCalls[c].pc = "initCurseForge"
  /\ DiscoveryDone(initCalls[c].wait)
  /\ initialized' = TRUE
  /\ initCalls' = [initCalls EXCEPT ![c].pc = "returned"]
  /\ UNCHANGED <<providers, adapters, settings, setCalls, discoveries,
                 searches, opCalls,
                 adapterCalls,
                 clientVars>>

-----------------------------------------------------------------------------
(* ModProviderService.setProviderApiKey(providerId, apiKey, userId) *)

\* the call up to its first await: an unknown provider raises, otherwise
\* settings.set('<providerId>.apiKey', apiKey, userId) is issued and awaited
SetProviderApiKeyEnter(providerId, apiKey) ==
  LET provider == getProvider(providers, providerId)
  IN IF provider = 0
     THEN [providerId |-> providerId, apiKey |-> apiKey, provider |-> 0,
           pc |-> "raised", steps |-> <<>>, wait |-> 0, held |-> NoKey, background |-> 0,
           failed |-> FALSE]
     ELSE [providerId |-> providerId, apiKey |-> apiKey, provider |-> provider,
           pc |-> "set", steps |-> <<"settings.set">>, wait |-> 0, held |-> NoKey,
           background |-> 0, failed |-> FALSE]

SetProviderApiKey ==
  /\ Len(setCalls) < MaxSetCalls
  /\ \E providerId \in RequestIds, apiKey \in Keys :
       setCalls' = Append(setCalls, SetProviderApiKeyEnter(providerId, apiKey))
  /\ UNCHANGED <<initialized, providers, adapters, settings, initCalls,
                 discoveries, searches, opCalls,
                 adapterCalls,
                 clientVars>>

\* the same with the store's error caught and logged
AfterSettingsSetMutantSwallow(ok) == "stored"

\* where the call goes when `await this.settingsService.set(..)` settled:
\* nothing catches a rejection
AfterSettingsSet(ok) == IF ok THEN "stored" ELSE "raised"

\* the settings store applies the write, or fails; a failure rejects the
\* awaited promise (`failed` keeps that) and the call raises
SettingsSet(c) ==
  /\ c \in 1..Len(setCalls)
  /\ setCalls[c].pc = "set"
  /\ \E ok \in BOOLEAN :
       /\ settings' = IF ok THEN [settings EXCEPT ![setCalls[c].providerId] = setCalls[c].apiKey]
                      ELSE settings
       /\ setCalls' = [setCalls EXCEPT ![c].pc = AfterSettingsSet(ok),
                                       ![c].failed = ~ok]
  /\ UNCHANGED <<initialized, providers, adapters, initCalls, discoveries,
                 searches, opCalls,
                 adapterCalls,
                 clientVars>>

\* the same with neither call reaching the adapter
PushApiKeyMutantNoPush(heap, discs, inst, apiKey) ==
  [heap |-> heap, discs |-> discs, steps |-> <<"setApiKey", "initialize">>, wait |-> 0,
   background |-> 0]

\* what provider.setApiKey(apiKey) followed by provider.initialize({apiKey})
\* does before initialize's first await.  On curseforge each of the two
\* starts a discoverHytaleGame(): the first is not awaited (background),
\* the second is (wait).
\* Yields the heap, the discoveries, the steps taken and the two runs.
PushApiKey(heap, discs, inst, apiKey) ==
  LET h1 == [heap EXCEPT ![inst] = AdapterSetApiKey(@, apiKey)]
      d1 == IF heap[inst].id = "curseforge"
            THEN Append(discs, NewDiscovery(h1, inst)) ELSE discs
      h2 == [h1 EXCEPT ![inst] = AdapterInitialize(@, apiKey)]
      d2 == IF heap[inst].id = "curseforge" /\ Truthy(apiKey)
            THEN Append(d1, NewDiscovery(h2, inst)) ELSE d1
  IN [heap |-> h2, discs |-> d2, steps |-> <<"setApiKey", "initialize">>,
      wait |-> IF Len(d2) > Len(d1) THEN Len(d2) ELSE 0,
      background |-> IF Len(d1) > Len(discs) THEN Len(d1) ELSE 0]

\* the continuation after `await this.settingsService.set(...)`.  An
\* initialize() that awaited nothing resumes the caller in the same turn of
\* the event loop, before any I/O callback: the call returns here, and
\* `held` records the key its adapter has at that moment.
SetProviderApiKeyPush(c) ==
  /\ c \in 1..Len(setCalls)
  /\ setCalls[c].pc = "stored"
  /\ LET r == PushApiKey(adapters, discoveries, setCalls[c].provider, setCalls[c].apiKey)
     IN /\ adapters' = r.heap
        /\ discoveries' = r.discs
        /\ setCalls' = [setCalls EXCEPT ![c].pc = IF r.wait = 0 THEN "returned" ELSE "initialize",
                                        ![c].steps = @ \o r.steps,
                                        ![c].wait = r.wait,
                                        ![c].background = r.background,
                                        ![c].held = IF r.wait = 0
                                                    THEN r.heap[setCalls[c].provider].apiKey
                                                    ELSE @]
  /\ UNCHANGED <<initialized, providers, settings, initCalls, searches, opCalls,
                 adapterCalls,
                 clientVars>>

\* the awaited provider.initialize() returned: the call returns
SetProviderApiKeyDone(c) ==
  /\ c \in 1..Len(setCalls)
  /\ setCalls[c].pc = "initialize"
  /\ DiscoveryDone(setCalls[c].wait)
  /\ setCalls' = [setCalls EXCEPT ![c].pc = "returned",
                                  ![c].held = adapters[setCalls[c].provider].apiKey]
  /\ UNCHANGED <<initialized, providers, adapters, settings, initCalls,
                 discoveries, searches, opCalls,
                 adapterCalls,
                 clientVars>>

-----------------------------------------------------------------------------
(* Unified search: parameters, upstream replies, adapter responses *)

\* UnifiedSearchParams.page / pageSize as parseSearchParams leaves them:
\* 0 stands for an absent field (parseInt(..) || 1 never yields 0)
Absent == 0
SearchParams == { [page |-> Absent, pageSize |-> Absent],
                  [page |-> 2, pageSize |-> 10] }

\* JavaScript's a || b on numbers
OrElse(a, b) == IF a # 0 THEN a ELSE b

Min(a, b) == IF a <= b THEN a ELSE b

\* raw upstream projects, as far as the search and download paths read them
RawVersions ==
  { <<>>,
    << [id |-> "v1", version |-> "1.0", fileSize |-> 100] >>,
    << [id |-> "v2", version |-> "2.0", fileSize |-> 200],
       [id |-> "v1", version |-> "1.0", fileSize |-> 100] >> }

RawProject(versions) ==
  [id |-> "p1", title |-> "Project", classification |-> "DATA", versions |-> versions]

\* ModtaleProvider.transformProject / CurseForgeProvider.transformMod, on
\* the fields the service reads: latestVersion is versions[0], kept as a
\* sequence of at most one element (<<>> is undefined)
transformProject(providerId, raw) ==
  [id |-> raw.id, providerId |-> providerId, title |-> raw.title,
   classification |-> raw.classification, versions |-> raw.versions,
   latestVersion |-> SubSeq(raw.versions, 1, Min(1, Len(raw.versions)))]

TransformAll(providerId, raws) ==
  [i \in 1..Len(raws) |-> transformProject(providerId, raws[i])]

\* what the code returns for a provider without results
EmptyResult(providerId, params, defaultSize) ==
  [projects |-> <<>>, total |-> 0, page |-> OrElse(params.page, 1),
   pageSize |-> OrElse(params.pageSize, defaultSize), hasMore |-> FALSE,
   providerId |-> providerId]

\* upstream replies to Modtale GET /projects: HTTP failure, Spring page
\* envelope, bare array, object with a 'projects' key, anything else
ModtaleSearchReplies ==
  { [shape |-> "error",   items |-> <<>>, total |-> 0, number |-> 0, size |-> 0, flag |-> FALSE],
    [shape |-> "content", items |-> <<RawProject(<<>>)>>, total |-> 3, number |-> 1, size |-> 10,
     flag |-> FALSE],
    [shape |-> "array",   items |-> <<RawProject(<<>>)>>, total |-> 0, number |-> 0, size |-> 0,
     flag |-> FALSE],
    [shape |-> "other",   items |-> <<>>, total |-> 0, number |-> 0, size |-> 0, flag |-> FALSE] }

\* the same with the bare array compared by > instead of >=
ModtaleHasMoreMutantStrict(params, reply) ==
  CASE reply.shape = "content"  -> ~reply.flag
    [] reply.shape = "array"    -> Len(reply.items) > OrElse(params.pageSize, 50)
    [] reply.shape = "projects" -> reply.flag
    [] OTHER -> FALSE

\* hasMore of a Modtale response, by shape: !response.last,
\* response.length >= (params.pageSize || 50), Boolean(response.hasMore);
\* the flag of a reply is its `last` or its `hasMore`
ModtaleHasMore(params, reply) ==
  CASE reply.shape = "content"  -> ~reply.flag
    [] reply.shape = "array"    -> Len(reply.items) >= OrElse(params.pageSize, 50)
    [] reply.shape = "projects" -> reply.flag
    [] OTHER -> FALSE

\* ModtaleProvider.searchProjects after the request settled:
\* [ok, value]; ok = FALSE is a raised error
ModtaleSearchSettled(params, reply) ==
  LET n == Len(reply.items)
  IN CASE reply.shape = "error" ->
            [ok |-> FALSE, value |-> EmptyResult("modtale", params, 50)]
       [] reply.shape = "content" ->
            [ok |-> TRUE,
             value |-> [projects |-> TransformAll("modtale", reply.items),
                        total |-> OrElse(reply.total, n),
                        page |-> reply.number + 1,
                        pageSize |-> OrElse(reply.size, OrElse(params.pageSize, 50)),
                        hasMore |-> ModtaleHasMore(params, reply),
                        providerId |-> "modtale"]]
       [] reply.shape = "array" ->
            [ok |-> TRUE,
             value |-> [projects |-> TransformAll("modtale", reply.items),
                        total |-> n,
                        page |-> OrElse(params.page, 1),
                        pageSize |-> OrElse(params.pageSize, 50),
                        hasMore |-> ModtaleHasMore(params, reply),
                        providerId |-> "modtale"]]
       [] reply.shape = "projects" ->
            [ok |-> TRUE,
             value |-> [projects |-> TransformAll("modtale", reply.items),
                        total |-> OrElse(reply.total, n),
                        page |-> OrElse(reply.number, OrElse(params.page, 1)),
                        pageSize |-> OrElse(reply.size, OrElse(params.pageSize, 50)),
                        hasMore |-> ModtaleHasMore(params, reply),
                        providerId |-> "modtale"]]
       [] OTHER ->
            [ok |-> TRUE, value |-> EmptyResult("modtale", params, 50)]

\* upstream replies to CurseForge GET /v1/mods/search: HTTP failure, a
\* {data, pagination} body, or a body without them (reading
\* response.data.map then throws a TypeError)
CurseForgeSearchReplies ==
  { [shape |-> "error", items |-> <<>>, index |-> 0, resultCount |-> 0, totalCount |-> 0],
    [shape |-> "page",  items |-> <<RawProject(<<>>)>>, index |-> 10, resultCount |-> 1,
     totalCount |-> 12],
    [shape |-> "other", items |-> <<>>, index |-> 0, resultCount |-> 0, totalCount |-> 0] }

\* pagination.index + pagination.resultCount < pagination.totalCount
CurseForgeHasMore(reply) == reply.index + reply.resultCount < reply.totalCount

\* CurseForgeProvider.searchProjects after the request settled
CurseForgeSearchSettled(params, reply) ==
  IF reply.shape = "page"
  THEN [ok |-> TRUE,
        value |-> [projects |-> TransformAll("curseforge", reply.items),
                   total |-> reply.totalCount,
                   page |-> OrElse(params.page, 1),
                   pageSize |-> Min(OrElse(params.pageSize, 50), 50),
                   hasMore |-> CurseForgeHasMore(reply),
                   providerId |-> "curseforge"]]
  ELSE [ok |-> FALSE, value |-> EmptyResult("curseforge", params, 50)]

SearchReplies(providerId) ==
  IF providerId = "modtale" THEN ModtaleSearchReplies ELSE CurseForgeSearchReplies

SearchSettled(providerId, params, reply) ==
  IF providerId = "modtale" THEN ModtaleSearchSettled(params, reply)
  ELSE CurseForgeSearchSettled(params, reply)

\* adapter.searchProjects(params) up to its first await.  Modtale issues
\* its request; CurseForge first awaits a discovery while it has no game
\* id.  (request() raises without an API key.)
\* Yields the call's stage and the discovery it started, if any.
SearchProjectsEnter(heap, inst) ==
  IF heap[inst].id = "curseforge" /\ heap[inst].hytaleGameId = NoGame
  THEN [stage |-> "discover", disc |-> <<NewDiscovery(heap, inst)>>]
  ELSE [stage |-> IF Truthy(heap[inst].apiKey) THEN "request" ELSE "nokey", disc |-> <<>>]

-----------------------------------------------------------------------------
(* ModProviderRegistry.searchAll(params) *)

\* the async callback of configuredProviders.map(..) once the adapter's
\* call settled: the result is passed through, a raised error is caught
\* and replaced by an empty response for that provider
SearchBranchMutantNoCatch(providerId, params, settled) ==
  IF settled.ok THEN [stage |-> "fulfilled", result |-> settled.value]
  ELSE [stage |-> "rejected", result |-> settled.value]

\* the same callback retrying a failed call
SearchBranchMutantRetry(providerId, params, settled) ==
  IF settled.ok THEN [stage |-> "fulfilled", result |-> settled.value]
  ELSE [stage |-> "request", result |-> settled.value]

SearchBranch(providerId, params, settled) ==
  IF settled.ok
  THEN [stage |-> "fulfilled", result |-> settled.value]
  ELSE [stage |-> "fulfilled", result |-> EmptyResult(providerId, params, 50)]

\* results of Promise.all: in the order of the promises passed in
JoinMutantCompletionOrder(branches, settleOrder) ==
  [i \in 1..Len(settleOrder) |-> branches[settleOrder[i]].result]

Join(branches, settleOrder) ==
  [i \in 1..Len(branches) |-> branches[i].result]

\* results.reduce((sum, r) => sum + r.total, 0)
RECURSIVE SumTotals(_)
SumTotals(results) ==
  IF results = <<>> THEN 0 ELSE Head(results).total + SumTotals(Tail(results))

\* the searchProjects calls of configuredProviders.map(..), in order
RECURSIVE StartBranches(_, _, _)
StartBranches(heap, discs, insts) ==
  IF insts = <<>> THEN [branches |-> <<>>, discs |-> discs]
  ELSE LET e    == SearchProjectsEnter(heap, Head(insts))
           d    == discs \o e.disc
           rest == StartBranches(heap, d, Tail(insts))
       IN [branches |-> <<[inst |-> Head(insts), stage |-> e.stage,
                           wait |-> IF e.disc = <<>> THEN 0 ELSE Len(d),
                           calls |-> 1,
                           failed |-> FALSE,
                           returned |-> EmptyResult(heap[Head(insts)].id, [page |-> 0, pageSize |-> 0], 0),
                           result |-> EmptyResult(heap[Head(insts)].id, [page |-> 0, pageSize |-> 0], 0)]>>
                        \o rest.branches,
           discs |-> rest.discs]

\* the registry as the call found it: [id, inst, configured] per provider,
\* in iteration order (kept for the record; the code does not store it)
RegistryView(reg, heap) ==
  [i \in 1..Len(reg) |-> [id |-> reg[i].k, inst |-> reg[i].v,
                          configured |-> isConfigured(heap[reg[i].v])]]

\* searchAll up to `await Promise.all(searchPromises)`
SearchAllEnter(params) ==
  LET configuredProviders == getConfiguredProviders(providers, adapters)
      started == StartBranches(adapters, discoveries, configuredProviders)
  IN /\ discoveries' = started.discs
     /\ searches' = Append(searches,
          [params |-> params,
           atCall |-> RegistryView(providers, adapters),
           branches |-> started.branches,
           settleOrder |-> <<>>,
           pc |-> IF configuredProviders = <<>> THEN "returned" ELSE "pending",
           results |-> <<>>,
           totalAcrossProviders |-> 0])

SearchAll ==
  /\ Len(searches) < MaxSearches
  /\ \E params \in SearchParams : SearchAllEnter(params)
  /\ UNCHANGED <<initialized, providers, adapters, settings, initCalls, setCalls,
                 opCalls,
                 adapterCalls,
                 clientVars>>

\* CurseForge searchProjects resumes after its discovery: without a game
\* id it returns an empty response (page size defaulting to 20), else it
\* issues the search request
SearchDiscovered(s, b) ==
  /\ s \in 1..Len(searches)
  /\ b \in 1..Len(searches[s].branches)
  /\ searches[s].branches[b].stage = "discover"
  /\ DiscoveryDone(searches[s].branches[b].wait)
  /\ LET br == searches[s].branches[b]
         a  == adapters[br.inst]
     IN searches' =
          IF a.hytaleGameId = NoGame
          THEN [searches EXCEPT ![s].branches[b].stage = "fulfilled",
                                ![s].branches[b].returned = EmptyResult(a.id, searches[s].params, 20),
                                ![s].branches[b].result = EmptyResult(a.id, searches[s].params, 20),
                                ![s].settleOrder = Append(@, b)]
          ELSE [searches EXCEPT ![s].branches[b].stage = "request"]
  /\ UNCHANGED <<initialized, providers, adapters, settings, initCalls, setCalls,
                 discoveries, opCalls,
                 adapterCalls,
                 clientVars>>

\* an adapter's search call settles (its request was answered, or
\* request() raised for want of an API key) and the branch's callback
\* finishes
SearchSettle(s, b) ==
  /\ s \in 1..Len(searches)
  /\ b \in 1..Len(searches[s].branches)
  /\ searches[s].branches[b].stage \in {"request", "nokey"}
  /\ LET br  == searches[s].branches[b]
         pid == adapters[br.inst].id
     IN \E reply \in IF br.stage = "nokey" THEN {r \in SearchReplies(pid) : r.shape = "error"}
                     ELSE SearchReplies(pid) :
          LET settled == SearchSettled(pid, searches[s].params, reply)
              done    == SearchBranch(pid, searches[s].params, settled)
          IN searches' = [searches EXCEPT
                            ![s].branches[b].stage = done.stage,
                            ![s].branches[b].calls = IF done.stage = "request" THEN @ + 1 ELSE @,
                            ![s].branches[b].failed = ~settled.ok,
                            ![s].branches[b].returned = settled.value,
                            ![s].branches[b].result = done.result,
                            ![s].settleOrder = IF done.stage = "request" THEN @ ELSE Append(@, b)]
  /\ UNCHANGED <<initialized, providers, adapters, settings, initCalls, setCalls,
                 discoveries, opCalls,
                 adapterCalls,
                 clientVars>>

BranchSettled(br) == br.stage \in {"fulfilled", "rejected"}

\* Promise.all settles: it rejects as soon as one promise is rejected, and
\* is fulfilled once all are fulfilled; searchAll then sums the totals
SearchAllDone(s) ==
  /\ s \in 1..Len(searches)
  /\ searches[s].pc = "pending"
  /\ LET brs == searches[s].branches
         anyRejected  == \E b \in 1..Len(brs) : brs[b].stage = "rejected"
         allFulfilled == \A b \in 1..Len(brs) : brs[b].stage = "fulfilled"
         results == Join(brs, searches[s].settleOrder)
     IN /\ IF anyRejected THEN TRUE ELSE allFulfilled
        /\ searches' =
             IF anyRejected
             THEN [searches EXCEPT ![s].pc = "raised"]
             ELSE [searches EXCEPT ![s].pc = "returned",
                                   ![s].results = results,
                                   ![s].totalAcrossProviders = SumTotals(results)]
  /\ UNCHANGED <<initialized, providers, adapters, settings, initCalls, setCalls,
                 discoveries, opCalls,
                 adapterCalls,
                 clientVars>>

-----------------------------------------------------------------------------
(* ModProviderService: per-provider operations *)

\* the service methods that forward one call to the adapter of a provider
ServiceOps ==
  {"search", "getProject", "getProjectBySlug", "getCategories", "getTags",
   "getVersionDependencies", "downloadVersion"}

\* the adapter method a service method forwards to
AdapterMethod(op) == IF op = "search" THEN "searchProjects" ELSE op

\* optional IModProvider methods: CurseForgeProvider has neither
\* getProjectBySlug nor getTags
Implements(providerId, method) ==
  IF providerId = "curseforge" THEN method \notin {"getProjectBySlug", "getTags"} ELSE TRUE

NoVersion == ""
VersionIds == {"v1", "v9"}

\* the params of a call that takes none
NoParams == [page |-> Absent, pageSize |-> Absent]

ParamArgs(op) == IF op = "search" THEN SearchParams ELSE {NoParams}

VersionArgs(op) ==
  IF op \in {"getVersionDependencies", "downloadVersion"} THEN VersionIds ELSE {NoVersion}

\* the same without the isConfigured() test
PreconditionMutantNoConfiguredTest(reg, heap, providerId) ==
  IF getProvider(reg, providerId) = 0 THEN "not found" ELSE "ok"

\* the two tests every per-provider method starts with
Precondition(reg, heap, providerId) ==
  LET provider == getProvider(reg, providerId)
  IN IF provider = 0 THEN "not found"
     ELSE IF ~isConfigured(heap[provider]) THEN "not configured"
     ELSE "ok"

\* a call record: `calls` lists the adapter methods invoked, with the
\* version id passed; project / version / metadata are <<>> while undefined;
\* atCall is the registry as the call found it
OpCall(op, providerId, versionId, provider, pc, error, calls) ==
  [op |-> op, providerId |-> providerId, versionId |-> versionId,
   provider |-> provider, pc |-> pc, error |-> error, calls |-> calls,
   project |-> <<>>, version |-> <<>>, metadata |-> <<>>, atCall |-> <<>>,
   params |-> NoParams, wait |-> 0, settled |-> <<>>, result |-> <<>>]

\* the same raising "not supported", as getProjectBySlug does
GetTagsUnsupportedMutantRaise(call) ==
  [call EXCEPT !.pc = "raised", !.error = "not supported"]

\* getTags when the adapter has no getTags method: `return []`
GetTagsUnsupported(call) ==
  [call EXCEPT !.pc = "returned", !.result = <<<<>>>>]

\* search .. downloadVersion, up to the adapter call
ServiceEnter(reg, heap, op, providerId, versionId) ==
  LET pre      == Precondition(reg, heap, providerId)
      provider == getProvider(reg, providerId)
      method   == AdapterMethod(op)
  IN IF pre # "ok"
     THEN OpCall(op, providerId, versionId, provider, "raised", pre, <<>>)
     ELSE IF op = "getProjectBySlug" /\ ~Implements(providerId, method)
     THEN OpCall(op, providerId, versionId, provider, "raised", "not supported", <<>>)
     ELSE IF op = "getTags" /\ ~Implements(providerId, method)
     THEN GetTagsUnsupported(OpCall(op, providerId, versionId, provider, "enter", "", <<>>))
     ELSE OpCall(op, providerId, versionId, provider, "adapter", "",
                 <<[method |-> method, versionId |-> versionId]>>)

ServiceOperation ==
  /\ Len(opCalls) < MaxOpCalls
  /\ \E op \in ServiceOps, providerId \in RequestIds :
       \E versionId \in VersionArgs(op), params \in ParamArgs(op) :
         LET call == ServiceEnter(providers, adapters, op, providerId, versionId)
             e    == IF op = "search" /\ call.pc = "adapter"
                     THEN SearchProjectsEnter(adapters, call.provider)
                     ELSE [stage |-> "request", disc |-> <<>>]
         IN /\ discoveries' = discoveries \o e.disc
            /\ opCalls' = Append(opCalls,
                  [call EXCEPT !.atCall = RegistryView(providers, adapters),
                               !.params = params,
                               !.pc = IF e.stage = "discover" THEN "discover" ELSE @,
                               !.wait = IF e.disc = <<>> THEN 0 ELSE Len(discoveries) + 1])
  /\ UNCHANGED <<initialized, providers, adapters, settings, initCalls, setCalls,
                 searches,
                 adapterCalls,
                 clientVars>>

\* search on CurseForge resumes after the discovery searchProjects awaited:
\* without a game id the adapter returns an empty response, else it issues
\* the search request
ServiceSearchDiscovered(c) ==
  /\ c \in 1..Len(opCalls)
  /\ opCalls[c].pc = "discover"
  /\ DiscoveryDone(opCalls[c].wait)
  /\ LET a     == adapters[opCalls[c].provider]
         empty == [ok |-> TRUE, value |-> EmptyResult(a.id, opCalls[c].params, 20)]
     IN opCalls' =
          IF a.hytaleGameId = NoGame
          THEN [opCalls EXCEPT ![c].pc = "returned",
                               ![c].settled = <<empty>>,
                               ![c].result = <<empty.value>>]
          ELSE [opCalls EXCEPT ![c].pc = "adapter"]
  /\ UNCHANGED <<initialized, providers, adapters, settings, initCalls, setCalls,
                 discoveries, searches,
                 adapterCalls,
                 clientVars>>

\* what ModtaleProvider.getTags() can return
TagLists == {<<>>, <<"magic">>, <<"magic", "tech">>}

\* how an adapter call can settle, as [ok, value]: searchProjects by the
\* upstream's reply, getTags with the tags or the request's error,
\* getVersionDependencies always with a list, the others either way
AdapterOutcomes(op, providerId, params) ==
  CASE op = "search" ->
         {SearchSettled(providerId, params, reply) : reply \in SearchReplies(providerId)}
    [] op = "getTags" ->
         {[ok |-> FALSE, value |-> <<>>]} \cup {[ok |-> TRUE, value |-> t] : t \in TagLists}
    [] op = "getVersionDependencies" ->
         {[ok |-> TRUE, value |-> <<>>]}
    [] OTHER ->
         {[ok |-> FALSE, value |-> <<>>], [ok |-> TRUE, value |-> <<>>]}

\* the same with searchAll's catch around a search
ForwardMutantEmptyOnFailure(op, providerId, params, settled) ==
  IF op = "search" /\ ~settled.ok
  THEN [ok |-> TRUE, value |-> EmptyResult(providerId, params, 50)]
  ELSE settled

\* `return provider.searchProjects(params)` and its like: the adapter's
\* promise is the operation's
Forward(op, providerId, params, settled) == settled

\* the adapter call settles
AdapterSettle(c) ==
  /\ c \in 1..Len(opCalls)
  /\ opCalls[c].pc = "adapter"
  /\ \E settled \in AdapterOutcomes(opCalls[c].op, opCalls[c].providerId, opCalls[c].params) :
       LET out == Forward(opCalls[c].op, opCalls[c].providerId, opCalls[c].params, settled)
       IN opCalls' = [opCalls EXCEPT ![c].pc = IF out.ok THEN "returned" ELSE "raised",
                                     ![c].error = IF out.ok THEN "" ELSE "adapter",
                                     ![c].settled = <<settled>>,
                                     ![c].result = IF out.ok THEN <<out.value>> ELSE <<>>]
  /\ UNCHANGED <<initialized, providers, adapters, settings, initCalls, setCalls,
                 discoveries, searches,
                 adapterCalls,
                 clientVars>>

-----------------------------------------------------------------------------
(* ModProviderService.downloadForInstallation(providerId, projectId, versionId) *)

\* provider.getProject(projectId) replies: failure, or a project
ProjectReplies ==
  {[ok |-> FALSE, versions |-> <<>>]} \cup {[ok |-> TRUE, versions |-> v] : v \in RawVersions}

\* project.versions.find(v => v.id === versionId), <<>> when undefined
RECURSIVE Find(_, _)
Find(versions, versionId) ==
  IF versions = <<>> THEN <<>>
  ELSE IF Head(versions).id = versionId THEN <<Head(versions)>>
       ELSE Find(Tail(versions), versionId)

\* the same resolution yielding a blank version when there is none
ResolveVersionMutantAlways(project, versionId) ==
  IF Find(project.versions, versionId) # <<>> THEN Find(project.versions, versionId)
  ELSE IF project.latestVersion # <<>> THEN project.latestVersion
       ELSE <<[id |-> versionId, version |-> "", fileSize |-> 0]>>

\* project.versions.find(..) || project.latestVersion
ResolveVersion(project, versionId) ==
  IF Find(project.versions, versionId) # <<>> THEN Find(project.versions, versionId)
  ELSE project.latestVersion

\* the UnifiedModMetadata record of a resolved version
Metadata(providerId, project, versionId, version) ==
  [providerId |-> providerId, projectId |-> project.id, projectTitle |-> project.title,
   versionId |-> versionId, versionName |-> version.version,
   classification |-> project.classification, fileSize |-> version.fileSize]

\* the call up to `await provider.getProject(projectId)`
DownloadForInstallationEnter(reg, heap, providerId, versionId) ==
  LET pre      == Precondition(reg, heap, providerId)
      provider == getProvider(reg, providerId)
  IN IF pre # "ok"
     THEN OpCall("downloadForInstallation", providerId, versionId, provider, "raised", pre, <<>>)
     ELSE OpCall("downloadForInstallation", providerId, versionId, provider, "getProject", "",
                 <<[method |-> "getProject", versionId |-> NoVersion]>>)

DownloadForInstallation ==
  /\ Len(opCalls) < MaxOpCalls
  /\ \E providerId \in RequestIds, versionId \in VersionIds :
       opCalls' = Append(opCalls,
                         [DownloadForInstallationEnter(providers, adapters, providerId, versionId)
                            EXCEPT !.atCall = RegistryView(providers, adapters)])
  /\ UNCHANGED <<initialized, providers, adapters, settings, initCalls, setCalls,
                 discoveries, searches,
                 adapterCalls,
                 clientVars>>

\* getProject settles.  A failure raises; otherwise the version is
\* resolved, the call raises without one, else provider.downloadVersion is
\* called with the requested version id and awaited.
InstallGetProject(c) ==
  /\ c \in 1..Len(opCalls)
  /\ opCalls[c].pc = "getProject"
  /\ \E reply \in ProjectReplies :
       IF ~reply.ok
       THEN opCalls' = [opCalls EXCEPT ![c].pc = "raised", ![c].error = "adapter"]
       ELSE LET project == transformProject(opCalls[c].providerId, RawProject(reply.versions))
                version == ResolveVersion(project, opCalls[c].versionId)
            IN IF version = <<>>
               THEN opCalls' = [opCalls EXCEPT ![c].pc = "raised",
                                               ![c].error = "version not found",
                                               ![c].project = <<project>>]
               ELSE opCalls' = [opCalls EXCEPT
                                  ![c].pc = "download",
                                  ![c].project = <<project>>,
                                  ![c].version = version,
                                  ![c].calls = Append(@, [method |-> "downloadVersion",
                                                          versionId |-> opCalls[c].versionId])]
  /\ UNCHANGED <<initialized, providers, adapters, settings, initCalls, setCalls,
                 discoveries, searches,
                 adapterCalls,
                 clientVars>>

\* downloadVersion settles: a failure raises, a stream is returned together
\* with the metadata record
InstallDownload(c) ==
  /\ c \in 1..Len(opCalls)
  /\ opCalls[c].pc = "download"
  /\ \E ok \in BOOLEAN :
       IF ~ok
       THEN opCalls' = [opCalls EXCEPT ![c].pc = "raised", ![c].error = "adapter"]
       ELSE opCalls' = [opCalls EXCEPT
                          ![c].pc = "returned",
                          ![c].metadata = <<Metadata(opCalls[c].providerId, opCalls[c].project[1],
                                                     opCalls[c].versionId, opCalls[c].version[1])>>]
  /\ UNCHANGED <<initialized, providers, adapters, settings, initCalls, setCalls,
                 discoveries, searches,
                 adapterCalls,
                 clientVars>>

-----------------------------------------------------------------------------
(* Upstream payloads and the adapters' transforms *)

\* A JSON property is kept as a sequence: <<>> when the property is absent
\* (undefined), <<v>> when it holds v.
Present(opt) == opt # <<>>

\* String(a || b || .. || ''): the first property that is present and not
\* the empty string
RECURSIVE FirstString(_)
FirstString(opts) ==
  IF opts = <<>> THEN ""
  ELSE IF Present(Head(opts)) /\ Head(opts)[1] # "" THEN Head(opts)[1]
       ELSE FirstString(Tail(opts))

\* Number(a || b || 0)
RECURSIVE FirstNumber(_)
FirstNumber(opts) ==
  IF opts = <<>> THEN 0
  ELSE IF Present(Head(opts)) /\ Head(opts)[1] # 0 THEN Head(opts)[1]
       ELSE FirstNumber(Tail(opts))

\* Array.isArray(x) ? x.map(f) : []  for arrays of strings
StringsOrEmpty(opt) == IF Present(opt) THEN opt[1] ELSE <<>>

\* the payload o with property f removed
Without(o, f) == [g \in DOMAIN o |-> IF g = f THEN <<>> ELSE o[g]]

UnifiedClassifications == {"PLUGIN", "DATA", "ART", "SAVE", "MODPACK"}

\* the same picking the last version
LatestOfMutantLast(versions) ==
  IF versions = <<>> THEN <<>> ELSE <<versions[Len(versions)]>>

\* versions[0]: <<>> is undefined
LatestOf(versions) == SubSeq(versions, 1, Min(1, Len(versions)))

\* ModtaleProvider.transformVersion
ModtaleTransformVersion(version) ==
  [id |-> FirstString(<<version.id>>),
   version |-> FirstString(<<version.version, version.versionNumber>>),
   fileSize |-> FirstNumber(<<version.fileSize, version.size>>)]

\* ModtaleProvider.transformAuthor, for an author that is a string or an
\* object
ModtaleTransformAuthor(author) ==
  IF author.isString
  THEN [id |-> author.text, username |-> author.text, displayName |-> author.text]
  ELSE [id |-> FirstString(<<author.id, author.username>>),
        username |-> FirstString(<<author.username, author.name>>),
        displayName |-> FirstString(<<author.displayName, author.name, author.username>>)]

\* ModtaleProvider.transformProject: [ok, value]; ok = FALSE is a raised
\* TypeError (transformAuthor reads a property of undefined)
ModtaleTransformProject(project) ==
  IF ~Present(project.author)
  THEN [ok |-> FALSE, value |-> <<>>]
  ELSE LET versions == IF Present(project.versions)
                       THEN [i \in 1..Len(project.versions[1]) |->
                               ModtaleTransformVersion(project.versions[1][i])]
                       ELSE <<>>
       IN [ok |-> TRUE,
           value |-> <<[id |-> FirstString(<<project.id>>),
                        slug |-> FirstString(<<project.slug, project.id>>),
                        providerId |-> "modtale",
                        title |-> FirstString(<<project.title, project.name>>),
                        description |-> FirstString(<<project.description>>),
                        classification |-> IF FirstString(<<project.classification>>) # ""
                                           THEN project.classification[1] ELSE "PLUGIN",
                        author |-> ModtaleTransformAuthor(project.author[1]),
                        tags |-> StringsOrEmpty(project.tags),
                        downloads |-> FirstNumber(<<project.downloadCount, project.downloads>>),
                        versions |-> versions,
                        latestVersion |-> LatestOf(versions),
                        gameVersions |-> StringsOrEmpty(project.gameVersions),
                        createdAt |-> FirstString(<<project.createdAt, project.createdDate>>),
                        updatedAt |-> FirstString(<<project.updatedAt, project.updatedDate>>)]>>]

\* upstream version objects of a Modtale project
ModtaleRawVersion(id, name, size) ==
  [id |-> <<id>>, version |-> <<name>>, versionNumber |-> <<>>,
   fileSize |-> <<size>>, size |-> <<>>]

ModtaleRawVersionLists ==
  { <<>>,
    << ModtaleRawVersion("v1", "1.0", 100) >>,
    << ModtaleRawVersion("v2", "2.0", 200), ModtaleRawVersion("v1", "1.0", 100) >>,
    << [id |-> <<"v3">>, version |-> <<>>, versionNumber |-> <<"3.0">>,
        fileSize |-> <<>>, size |-> <<300>>] >> }

\* classification values the upstream may send; LIBRARY is none of the
\* unified ones
UpstreamClassifications == {"DATA", "MODPACK", "LIBRARY", ""}

ModtaleAuthors ==
  { [isString |-> TRUE, text |-> "ann", id |-> <<>>, username |-> <<>>, name |-> <<>>,
     displayName |-> <<>>],
    [isString |-> FALSE, text |-> "", id |-> <<"a1">>, username |-> <<"ann">>, name |-> <<>>,
     displayName |-> <<>>] }

\* a Modtale project with every property the transform reads
ModtaleFullProject(classification, versions, author) ==
  [id |-> <<"p1">>, slug |-> <<"p-one">>, title |-> <<"Project">>, name |-> <<"Named">>,
   description |-> <<"text">>, classification |-> <<classification>>,
   author |-> <<author>>, tags |-> << <<"t1">> >>,
   downloadCount |-> <<5>>, downloads |-> <<7>>, versions |-> <<versions>>,
   gameVersions |-> << <<"1.0">> >>,
   createdAt |-> <<"d1">>, createdDate |-> <<"d0">>,
   updatedAt |-> <<"d2">>, updatedDate |-> <<"d3">>]

ModtaleFields ==
  {"id", "slug", "title", "name", "description", "classification", "author", "tags",
   "downloadCount", "downloads", "versions", "gameVersions", "createdAt", "createdDate",
   "updatedAt", "updatedDate"}

\* the payloads applied: the full one and the ones lacking one property
ModtaleProjects ==
  { Without(ModtaleFullProject(c, v, a), f) :
      c \in UpstreamClassifications, v \in ModtaleRawVersionLists, a \in ModtaleAuthors,
      f \in ModtaleFields \cup {"none"} }

\* CurseForgeProvider.getClassification
getClassification(classificationMap, classId) ==
  IF ~Present(classId) THEN "PLUGIN"
  ELSE IF classId[1] = 0 THEN "PLUGIN"
  ELSE IF MapHas(classificationMap, classId[1]) THEN MapGet(classificationMap, classId[1])
  ELSE "PLUGIN"

\* CurseForgeProvider.transformFile: reading file.gameVersions[0] of a
\* file without gameVersions is a TypeError
CurseForgeFileReadable(file) == Present(file.gameVersions)

CurseForgeTransformFile(file) ==
  [id |-> FirstString(<<file.id>>),
   version |-> FirstString(<<file.displayName, file.fileName>>),
   fileSize |-> FirstNumber(<<file.fileLength>>)]

\* the properties transformMod dereferences without a guard
CurseForgeDereferenced ==
  {"summary", "authors", "latestFiles", "categories", "latestFilesIndexes", "screenshots"}

\* CurseForgeProvider.transformMod: [ok, value]; ok = FALSE is a raised
\* TypeError.  Properties copied as they are stay optional in the value;
\* String(undefined) is "undefined".
CurseForgeTransformMod(classificationMap, mod) ==
  IF \/ \E f \in CurseForgeDereferenced : ~Present(mod[f])
     \/ \E i \in 1..Len(mod.latestFiles[1]) : ~CurseForgeFileReadable(mod.latestFiles[1][i])
  THEN [ok |-> FALSE, value |-> <<>>]
  ELSE LET versions == [i \in 1..Len(mod.latestFiles[1]) |->
                          CurseForgeTransformFile(mod.latestFiles[1][i])]
           authors  == mod.authors[1]
       IN [ok |-> TRUE,
           value |-> <<[id |-> IF Present(mod.id) THEN mod.id[1] ELSE "undefined",
                        slug |-> mod.slug,
                        providerId |-> "curseforge",
                        title |-> mod.name,
                        description |-> mod.summary,
                        classification |-> getClassification(classificationMap, mod.classId),
                        author |-> IF authors # <<>>
                                   THEN [id |-> authors[1].id, username |-> authors[1].name,
                                         displayName |-> authors[1].name]
                                   ELSE [id |-> "unknown", username |-> "Unknown",
                                         displayName |-> "Unknown"],
                        categories |-> mod.categories[1],
                        downloads |-> mod.downloadCount,
                        versions |-> versions,
                        latestVersion |-> LatestOf(versions),
                        gameVersions |-> mod.latestFilesIndexes[1],
                        createdAt |-> mod.dateCreated,
                        updatedAt |-> mod.dateModified]>>]

CurseForgeRawFile(id, name, size) ==
  [id |-> <<id>>, displayName |-> <<name>>, fileName |-> <<"f.zip">>,
   fileLength |-> <<size>>, gameVersions |-> << <<"1.0">> >>]

CurseForgeRawFileLists ==
  { <<>>,
    << CurseForgeRawFile("11", "1.0", 100) >>,
    << CurseForgeRawFile("12", "2.0", 200), CurseForgeRawFile("11", "1.0", 100) >>,
    << Without(CurseForgeRawFile("13", "3.0", 300), "gameVersions") >> }

\* class ids the upstream may send: two the categories reply names, one
\* it does not, and 0
UpstreamClassIds == {1, 2, 9, 0}

\* the classification maps an adapter may hold: none loaded, or the one
\* loadCategories builds from a categories reply
ClassificationMaps ==
  { BuildClassificationMap(<<>>, reply.data) : reply \in CategoriesReplies }

CurseForgeFullMod(classId, files, authors) ==
  [id |-> <<"77">>, slug |-> <<"m-one">>, name |-> <<"Mod">>, summary |-> <<"text">>,
   classId |-> <<classId>>, authors |-> <<authors>>, categories |-> << <<"c1">> >>,
   downloadCount |-> <<5>>, latestFiles |-> <<files>>,
   latestFilesIndexes |-> << <<"1.0">> >>, screenshots |-> << <<>> >>,
   dateCreated |-> <<"d1">>, dateModified |-> <<"d2">>]

CurseForgeFields ==
  {"id", "slug", "name", "summary", "classId", "authors", "categories", "downloadCount",
   "latestFiles", "latestFilesIndexes", "screenshots", "dateCreated", "dateModified"}

CurseForgeMods ==
  { Without(CurseForgeFullMod(c, v, a), f) :
      c \in UpstreamClassIds, v \in CurseForgeRawFileLists,
      a \in { <<>>, <<[id |-> "a1", name |-> "ann"]>> },
      f \in CurseForgeFields \cup {"none"} }

\* ModtaleProvider.transformProject applied to an upstream project
ApplyTransformProject ==
  /\ adapterCalls = <<>>
  /\ \E project \in ModtaleProjects :
       adapterCalls' = <<[fn |-> "transformProject", providerId |-> "modtale",
                          input |-> project, output |-> ModtaleTransformProject(project)]>>
  /\ UNCHANGED <<initialized, providers, adapters, settings, initCalls, setCalls,
                 discoveries, searches, opCalls,
                 clientVars>>

\* CurseForgeProvider.transformMod applied to an upstream mod, by an
\* adapter holding some classification map
ApplyTransformMod ==
  /\ adapterCalls = <<>>
  /\ \E mod \in CurseForgeMods, classificationMap \in ClassificationMaps :
       adapterCalls' = <<[fn |-> "transformMod", providerId |-> "curseforge",
                          input |-> mod, classificationMap |-> classificationMap,
                          output |-> CurseForgeTransformMod(classificationMap, mod)]>>
  /\ UNCHANGED <<initialized, providers, adapters, settings, initCalls, setCalls,
                 discoveries, searches, opCalls,
                 clientVars>>

\* page / pageSize values a caller may pass (Absent: not given)
PageParams == [page : {Absent, 1, 2, 3}, pageSize : {Absent, 2, 10, 50, 60}]

\* the pagination of the request ModtaleProvider.searchProjects sends:
\* page is 0-indexed upstream
ModtaleSearchRequest(params) ==
  [page |-> (IF params.page = Absent THEN 1 ELSE params.page) - 1,
   size |-> IF params.pageSize = Absent THEN 50 ELSE params.pageSize]

\* the pagination of the request CurseForgeProvider.searchProjects sends
CurseForgeSearchRequest(params) ==
  LET page     == IF params.page = Absent THEN 1 ELSE params.page
      pageSize == Min(IF params.pageSize = Absent THEN 50 ELSE params.pageSize, 50)
  IN [index |-> (page - 1) * pageSize, pageSize |-> pageSize]

\* the first item a request asks for, in the provider's own terms
NativeOffset(providerId, request) ==
  IF providerId = "modtale" THEN request.page * request.size ELSE request.index

\* successful Modtale replies that report the page index and size they
\* were asked for, in each of the three shapes
ModtaleRepliesTo(request) ==
  { [shape |-> sh, items |-> <<RawProject(<<>>)>>, total |-> 70,
     number |-> request.page, size |-> request.size, flag |-> FALSE] :
      sh \in {"content", "array", "projects"} }

\* successful CurseForge replies that report the index they were asked for
CurseForgeRepliesTo(request) ==
  { [shape |-> "page", items |-> <<RawProject(<<>>)>>, index |-> request.index,
     resultCount |-> 1, totalCount |-> 70] }

SearchRequest(providerId, params) ==
  IF providerId = "modtale" THEN ModtaleSearchRequest(params)
  ELSE CurseForgeSearchRequest(params)

RepliesTo(providerId, request) ==
  IF providerId = "modtale" THEN ModtaleRepliesTo(request) ELSE CurseForgeRepliesTo(request)

\* n upstream projects
Items(n) == [i \in 1..n |-> RawProject(<<>>)]

\* successful replies that differ in what they say of completeness: the
\* envelope's `last`, the length of a bare array, the keyed object's
\* `hasMore`; the pagination block of CurseForge
CompletenessReplies(providerId) ==
  IF providerId = "modtale"
  THEN { [shape |-> sh, items |-> Items(n), total |-> 7, number |-> 0, size |-> 0,
          flag |-> f] : sh \in {"content", "array", "projects"}, n \in 0..3, f \in BOOLEAN }
  ELSE { [shape |-> "page", items |-> Items(n), index |-> i, resultCount |-> n,
          totalCount |-> t] : n \in 0..2, i \in {0, 2}, t \in {0, 2, 4, 70} }

\* adapter.searchProjects(params) of an adapter that has its key (and, on
\* CurseForge, its game id): the request sent and what the call yields for
\* an upstream reply
ApplySearchProjects ==
  /\ adapterCalls = <<>>
  /\ \E providerId \in KnownIds, params \in PageParams :
       LET request == SearchRequest(providerId, params)
       IN \E reply \in SearchReplies(providerId) \cup RepliesTo(providerId, request)
                        \cup CompletenessReplies(providerId) :
            adapterCalls' = <<[fn |-> "searchProjects", providerId |-> providerId,
                               input |-> params, request |-> request, reply |-> reply,
                               output |-> SearchSettled(providerId, params, reply)]>>
  /\ UNCHANGED <<initialized, providers, adapters, settings, initCalls, setCalls,
                 discoveries, searches, opCalls,
                 clientVars>>

-----------------------------------------------------------------------------
(* getVersionDependencies of the two adapters *)

\* the same with the error rethrown
BestEffortMutantRethrow(r) == r

\* try { .. } catch { return [] } around the whole method: r is [ok,
\* value], ok = FALSE an error raised inside
BestEffort(r) == IF r.ok THEN r ELSE [ok |-> TRUE, value |-> <<>>]

\* the map callback of ModtaleProvider.getVersionDependencies: a
\* dependency is a bare string or an object
ModtaleDependency(dep) ==
  IF dep.isString
  THEN [projectId |-> dep.text, projectName |-> <<dep.text>>,
        required |-> TRUE, type |-> "required"]
  ELSE [projectId |-> FirstString(<<dep.modId, dep.projectId>>),
        projectName |-> <<FirstString(<<dep.name, dep.modId, dep.projectId>>)>>,
        required |-> dep.required # <<FALSE>>,
        type |-> IF dep.required # <<FALSE>> THEN "required" ELSE "optional"]

ModtaleStringDep(text) ==
  [isString |-> TRUE, text |-> text, modId |-> <<>>, projectId |-> <<>>, name |-> <<>>,
   required |-> <<>>]

ModtaleObjectDep(modId, required) ==
  [isString |-> FALSE, text |-> "", modId |-> <<modId>>, projectId |-> <<>>,
   name |-> <<"Lib">>, required |-> required]

\* dependency lists of an upstream version (its modIds property)
ModtaleDependencyLists ==
  { <<>>,
    << ModtaleStringDep("lib") >>,
    << ModtaleObjectDep("m1", <<>>) >>,
    << ModtaleObjectDep("m1", <<TRUE>>), ModtaleObjectDep("m2", <<FALSE>>) >>,
    << ModtaleStringDep("lib"), ModtaleObjectDep("m2", <<FALSE>>) >> }

\* replies to GET /projects/<id>: failure, a project without versions, a
\* project whose versions hold the version asked for or another one
ModtaleDependencyReplies ==
  {[ok |-> FALSE, versions |-> <<>>], [ok |-> TRUE, versions |-> <<>>]}
  \cup { [ok |-> TRUE, versions |-> << <<[id |-> id, modIds |-> <<deps>>]>> >>] :
           id \in VersionIds, deps \in ModtaleDependencyLists }
  \cup { [ok |-> TRUE, versions |-> << <<[id |-> "v1", modIds |-> <<>>]>> >>] }

\* the body of ModtaleProvider.getVersionDependencies inside its try
ModtaleDependenciesTry(hasKey, reply, versionId) ==
  IF ~hasKey \/ ~reply.ok THEN [ok |-> FALSE, value |-> <<>>]
  ELSE LET versions == IF Present(reply.versions) THEN reply.versions[1] ELSE <<>>
           version  == Find(versions, versionId)
       IN IF version = <<>> THEN [ok |-> TRUE, value |-> <<>>]
          ELSE IF ~Present(version[1].modIds) THEN [ok |-> TRUE, value |-> <<>>]
          ELSE [ok |-> TRUE,
                value |-> [i \in 1..Len(version[1].modIds[1]) |->
                             ModtaleDependency(version[1].modIds[1][i])]]

ModtaleGetVersionDependencies(hasKey, reply, versionId) ==
  BestEffort(ModtaleDependenciesTry(hasKey, reply, versionId))

\* the same with every relation but Optional typed 'required'
CurseForgeDependencyMutantType(dep, resolved) ==
  [projectId |-> dep.modId,
   projectName |-> IF resolved THEN <<"Lib">> ELSE <<"Mod #", dep.modId>>,
   required |-> dep.relationType = 3,
   type |-> IF dep.relationType = 2 THEN "optional" ELSE "required"]

\* the loop body of CurseForgeProvider.getVersionDependencies: the entry
\* pushed for a dependency whose name lookup succeeded or failed.  The
\* label `Mod #<id>` is kept as its two parts.
CurseForgeDependency(dep, resolved) ==
  [projectId |-> dep.modId,
   projectName |-> IF resolved THEN <<"Lib">> ELSE <<"Mod #", dep.modId>>,
   required |-> dep.relationType = 3,
   type |-> IF dep.relationType = 3 THEN "required" ELSE "optional"]

\* CurseForge relation types: 1 embedded, 2 optional, 3 required, 4 tool,
\* 5 incompatible, 6 include
RelationTypes == 1..6

CurseForgeDependencyLists ==
  {<<>>} \cup { <<[modId |-> "21", relationType |-> t]>> : t \in RelationTypes }
         \cup { <<[modId |-> "21", relationType |-> 3], [modId |-> "22", relationType |-> t]>> :
                  t \in {2, 5} }

\* replies to GET /v1/mods/<id>/files/<file>: failure, a file without a
\* dependencies property, a file with dependencies
CurseForgeFileReplies ==
  {[ok |-> FALSE, dependencies |-> <<>>], [ok |-> TRUE, dependencies |-> <<>>]}
  \cup { [ok |-> TRUE, dependencies |-> <<deps>>] : deps \in CurseForgeDependencyLists }

\* the body of CurseForgeProvider.getVersionDependencies inside its outer
\* try; lookups[i] tells whether GET /v1/mods/<modId> of the i-th
\* dependency succeeded
CurseForgeDependenciesTry(hasKey, reply, lookups) ==
  IF ~hasKey \/ ~reply.ok THEN [ok |-> FALSE, value |-> <<>>]
  ELSE LET deps == IF Present(reply.dependencies) THEN reply.dependencies[1] ELSE <<>>
       IN [ok |-> TRUE,
           value |-> [i \in 1..Len(deps) |-> CurseForgeDependency(deps[i], lookups[i])]]

CurseForgeGetVersionDependencies(hasKey, reply, lookups) ==
  BestEffort(CurseForgeDependenciesTry(hasKey, reply, lookups))

\* the longest dependency list applied
MaxDependencies == 2

\* ModtaleProvider.getVersionDependencies applied, with or without a key
ApplyModtaleDependencies ==
  /\ adapterCalls = <<>>
  /\ \E hasKey \in BOOLEAN, reply \in ModtaleDependencyReplies :
       adapterCalls' = <<[fn |-> "getVersionDependencies", providerId |-> "modtale",
                          hasKey |-> hasKey, reply |-> reply, lookups |-> <<>>,
                          output |-> ModtaleGetVersionDependencies(hasKey, reply, "v1")]>>
  /\ UNCHANGED <<initialized, providers, adapters, settings, initCalls, setCalls,
                 discoveries, searches, opCalls,
                 clientVars>>

\* CurseForgeProvider.getVersionDependencies applied, with or without a key
ApplyCurseForgeDependencies ==
  /\ adapterCalls = <<>>
  /\ \E hasKey \in BOOLEAN, reply \in CurseForgeFileReplies :
       \E lookups \in [1..MaxDependencies -> BOOLEAN] :
         adapterCalls' = <<[fn |-> "getVersionDependencies", providerId |-> "curseforge",
                            hasKey |-> hasKey, reply |-> reply, lookups |-> lookups,
                            output |-> CurseForgeGetVersionDependencies(hasKey, reply, lookups)]>>
  /\ UNCHANGED <<initialized, providers, adapters, settings, initCalls, setCalls,
                 discoveries, searches, opCalls,
                 clientVars>>

-----------------------------------------------------------------------------
(* adapter.initialize(config), awaited to its end *)

\* what an upstream answers to the two requests of a discovery; game 432
\* has other categories than the known game
OtherCategories ==
  [ok |-> TRUE, data |-> << [id |-> 3, name |-> "Modpacks", isClass |-> TRUE] >>]

Upstreams == [games : GamesReplies, categories : CategoriesReplies \cup {OtherCategories}]

NewProvider(providerId) ==
  IF providerId = "modtale" THEN NewModtaleProvider ELSE NewCurseForgeProvider

\* discoverHytaleGame() run to its end against one upstream
DiscoverHytaleGameRun(a, up) ==
  IF ~Truthy(a.apiKey) THEN a
  ELSE LET found == DiscoverGamesSettled(a, up.games)
       IN IF AfterGames(up.games) = "categories" /\ found.hytaleGameId # NoGame
          THEN LoadCategoriesSettled(found, up.categories)
          ELSE found

\* `await adapter.initialize({apiKey: key})` on an adapter nothing else
\* touches meanwhile: CurseForge installs a truthy key and awaits a
\* discovery, Modtale installs a truthy key
InitializeRun(a, key, up) ==
  IF a.id = "curseforge" /\ Truthy(key)
  THEN DiscoverHytaleGameRun(AdapterInitialize(a, key), up)
  ELSE AdapterInitialize(a, key)

\* a fresh adapter initialized once, and then a second time
ApplyInitialize ==
  /\ adapterCalls = <<>>
  /\ \E providerId \in KnownIds, key1 \in Keys \cup {NoKey}, key2 \in Keys \cup {NoKey} :
       \E up1 \in Upstreams, up2 \in Upstreams :
         LET once  == InitializeRun(NewProvider(providerId), key1, up1)
             twice == InitializeRun(once, key2, up2)
         IN adapterCalls' = <<[fn |-> "initialize", providerId |-> providerId,
                               key1 |-> key1, up1 |-> up1, key2 |-> key2, up2 |-> up2,
                               once |-> once, twice |-> twice]>>
  /\ UNCHANGED <<initialized, providers, adapters, settings, initCalls, setCalls,
                 discoveries, searches, opCalls,
                 clientVars>>

-----------------------------------------------------------------------------
(* Web client: modProviderApi.ts caches and the provider store *)

\* GET /providers as the server answers it after `epoch` configurations:
\* the isConfigured values of the list are those of that moment
ProviderList(epoch) == [configuredAsOf |-> epoch]

\* the configuration the latest completed configureProvider() put in place
RECURSIVE MaxEpoch(_)
MaxEpoch(calls) ==
  IF calls = <<>> THEN 0
  ELSE LET rest == MaxEpoch(Tail(calls))
           own  == IF Head(calls).pc = "returned" THEN Head(calls).epoch ELSE 0
       IN IF own > rest THEN own ELSE rest

\* getCachedProviders() up to its await: a cached list is returned at
\* once, else getProviders() is issued.  `floor` keeps the configuration
\* that was complete when the call was made.
GetCachedProviders ==
  /\ Len(cacheLookups) < MaxLookups
  /\ cacheLookups' = Append(cacheLookups,
       IF providersCache # <<>>
       THEN [pc |-> "returned", response |-> [ok |-> TRUE, list |-> providersCache],
             result |-> providersCache, floor |-> MaxEpoch(configures)]
       ELSE [pc |-> "fetch", response |-> [ok |-> FALSE, list |-> <<>>],
             result |-> <<>>, floor |-> MaxEpoch(configures)])
  /\ UNCHANGED <<backend, providersCache, configures, store, storeSearches>>
  /\ UNCHANGED serverVars

\* the server handles the GET /providers of a lookup, or the request fails
BackendProviders(l) ==
  /\ l \in 1..Len(cacheLookups)
  /\ cacheLookups[l].pc = "fetch"
  /\ \E ok \in BOOLEAN :
       cacheLookups' = [cacheLookups EXCEPT
                     ![l].pc = "answered",
                     ![l].response = [ok |-> ok,
                                      list |-> IF ok THEN <<ProviderList(backend)>> ELSE <<>>]]
  /\ UNCHANGED <<backend, providersCache, configures, store, storeSearches>>
  /\ UNCHANGED serverVars

\* providersCache = await getProviders()
CacheAfterFetch(cache, list) == list

\* the lookup resumes: the list is stored in the cache and returned; an
\* error leaves the function before the assignment
LookupResolve(l) ==
  /\ l \in 1..Len(cacheLookups)
  /\ cacheLookups[l].pc = "answered"
  /\ IF cacheLookups[l].response.ok
     THEN /\ providersCache' = CacheAfterFetch(providersCache, cacheLookups[l].response.list)
          /\ cacheLookups' = [cacheLookups EXCEPT ![l].pc = "returned",
                                        ![l].result = providersCache']
     ELSE /\ cacheLookups' = [cacheLookups EXCEPT ![l].pc = "raised"]
          /\ UNCHANGED providersCache
  /\ UNCHANGED <<backend, configures, store, storeSearches>>
  /\ UNCHANGED serverVars

\* clearProvidersCache() / clearCache(): providersCache = null
ClearProvidersCache ==
  /\ providersCache # <<>>
  /\ providersCache' = <<>>
  /\ UNCHANGED <<backend, cacheLookups, configures, store, storeSearches>>
  /\ UNCHANGED serverVars

\* the store's configureProvider(providerId, apiKey) up to its await of
\* the POST /providers/<id>/configure
ConfigureProvider ==
  /\ Len(configures) < MaxConfigures
  /\ configures' = Append(configures,
       [pc |-> "post", epoch |-> 0, response |-> [ok |-> FALSE, list |-> <<>>]])
  /\ UNCHANGED <<backend, providersCache, cacheLookups, store, storeSearches>>
  /\ UNCHANGED serverVars

\* the server applies the configuration, or refuses it
BackendConfigure(c) ==
  /\ c \in 1..Len(configures)
  /\ configures[c].pc = "post"
  /\ \E ok \in BOOLEAN :
       /\ backend' = IF ok THEN backend + 1 ELSE backend
       /\ configures' = [configures EXCEPT ![c].pc = IF ok THEN "posted" ELSE "refused",
                                           ![c].epoch = IF ok THEN backend + 1 ELSE 0]
  /\ UNCHANGED <<providersCache, cacheLookups, store, storeSearches>>
  /\ UNCHANGED serverVars

\* configureProvider resumes: after an error it throws; else it clears the
\* providers cache and calls loadProviders(), which sets providersLoading
\* and issues getProviders()
ConfigureResumed(c) ==
  /\ c \in 1..Len(configures)
  /\ configures[c].pc \in {"posted", "refused"}
  /\ IF configures[c].pc = "posted"
     THEN /\ providersCache' = <<>>
          /\ store' = [store EXCEPT !.providersLoading = TRUE, !.providersError = ""]
          /\ configures' = [configures EXCEPT ![c].pc = "reload"]
     ELSE /\ configures' = [configures EXCEPT ![c].pc = "raised"]
          /\ UNCHANGED <<providersCache, store>>
  /\ UNCHANGED <<backend, cacheLookups, storeSearches>>
  /\ UNCHANGED serverVars

\* the server handles the GET /providers of loadProviders, or it fails
BackendReload(c) ==
  /\ c \in 1..Len(configures)
  /\ configures[c].pc = "reload"
  /\ \E ok \in BOOLEAN :
       configures' = [configures EXCEPT
                        ![c].pc = "reloaded",
                        ![c].response = [ok |-> ok,
                                         list |-> IF ok THEN <<ProviderList(backend)>> ELSE <<>>]]
  /\ UNCHANGED <<backend, providersCache, cacheLookups, store, storeSearches>>
  /\ UNCHANGED serverVars

\* loadProviders resumes and stores the list, or the error message; it
\* never throws, and configureProvider returns
ReloadDone(c) ==
  /\ c \in 1..Len(configures)
  /\ configures[c].pc = "reloaded"
  /\ store' = IF configures[c].response.ok
              THEN [store EXCEPT !.providers = configures[c].response.list,
                                 !.providersLoading = FALSE]
              ELSE [store EXCEPT !.providersError = "Failed to load providers",
                                 !.providersLoading = FALSE]
  /\ configures' = [configures EXCEPT ![c].pc = "returned"]
  /\ UNCHANGED <<backend, providersCache, cacheLookups, storeSearches>>
  /\ UNCHANGED serverVars

\* provider selections and pages a user picks
Selections == {"modtale", "all"}
Pages == {1, 2}

\* setSelectedProvider(provider)
SetSelectedProvider ==
  /\ \E provider \in Selections :
       store' = [store EXCEPT !.selectedProvider = provider,
                              !.searchResults = <<>>,
                              !.multiSearchResults = <<>>,
                              !.searchPage = 1]
  /\ UNCHANGED <<backend, providersCache, cacheLookups, configures, storeSearches>>
  /\ UNCHANGED serverVars

\* setSearchPage(page)
SetSearchPage ==
  /\ \E page \in Pages : store' = [store EXCEPT !.searchPage = page]
  /\ UNCHANGED <<backend, providersCache, cacheLookups, configures, storeSearches>>
  /\ UNCHANGED serverVars

\* search() up to its await: the state is read, searchLoading set and the
\* request for the selected provider (or all) issued
StoreSearch ==
  /\ Len(storeSearches) < MaxStoreSearches
  /\ store' = [store EXCEPT !.searchLoading = TRUE, !.searchError = ""]
  /\ storeSearches' = Append(storeSearches,
       [provider |-> store.selectedProvider, page |-> store.searchPage, pc |-> "request"])
  /\ UNCHANGED <<backend, providersCache, cacheLookups, configures>>
  /\ UNCHANGED serverVars

\* the response to the request of search call s
SearchResponse(s) ==
  [request |-> s, provider |-> storeSearches[s].provider, page |-> storeSearches[s].page]

\* search() resumes: the results replace the displayed ones and
\* searchLoading is cleared; an error is kept as searchError
StoreSearchResolve(s) ==
  /\ s \in 1..Len(storeSearches)
  /\ storeSearches[s].pc = "request"
  /\ \E ok \in BOOLEAN :
       /\ store' = IF ~ok
                   THEN [store EXCEPT !.searchError = "Search failed",
                                      !.searchLoading = FALSE]
                   ELSE IF storeSearches[s].provider = "all"
                   THEN [store EXCEPT !.multiSearchResults = <<SearchResponse(s)>>,
                                      !.searchResults = <<>>,
                                      !.searchLoading = FALSE]
                   ELSE [store EXCEPT !.searchResults = <<SearchResponse(s)>>,
                                      !.multiSearchResults = <<>>,
                                      !.searchLoading = FALSE]
       /\ storeSearches' = [storeSearches EXCEPT ![s].pc = IF ok THEN "returned" ELSE "failed"]
  /\ UNCHANGED <<backend, providersCache, cacheLookups, configures>>
  /\ UNCHANGED serverVars

\* the store as created (the providers list, [], kept as <<>>)
NewStore ==
  [selectedProvider |-> "modtale", providers |-> <<>>, providersLoading |-> FALSE,
   providersError |-> "", searchPage |-> 1, searchResults |-> <<>>,
   multiSearchResults |-> <<>>, searchLoading |-> FALSE, searchError |-> ""]

-----------------------------------------------------------------------------
(* Specifications *)

\* after construction: nothing registered; the settings store holds
\* whatever earlier runs of the application persisted
Init ==
  /\ initialized = FALSE
  /\ providers = <<>>
  /\ adapters = <<>>
  /\ settings \in [KnownIds -> {NoKey, "k1"}]
  /\ initCalls = <<>>
  /\ setCalls = <<>>
  /\ discoveries = <<>>
  /\ searches = <<>>
  /\ opCalls = <<>>
  /\ adapterCalls = <<>>
  /\ backend = 0
  /\ providersCache = <<>>
  /\ cacheLookups = <<>>
  /\ configures = <<>>
  /\ store = NewStore
  /\ storeSearches = <<>>

\* the steps of initialize() calls already made, and of discoveries
BootSteps ==
  \/ \E c \in 1..Len(initCalls) : InitializeModtale(c)
  \/ \E c \in 1..Len(initCalls) : InitializeCurseForge(c)
  \/ \E c \in 1..Len(initCalls) : InitializeDone(c)
  \/ \E d \in 1..Len(discoveries) : DiscoverGames(d)
  \/ \E d \in 1..Len(discoveries) : LoadCategories(d)

SearchSteps ==
  \/ SearchAll
  \/ \E s \in 1..Len(searches) : \E b \in 1..Len(searches[s].branches) : SearchDiscovered(s, b)
  \/ \E s \in 1..Len(searches) : \E b \in 1..Len(searches[s].branches) : SearchSettle(s, b)
  \/ \E s \in 1..Len(searches) : SearchAllDone(s)

\* searchAll requests served by an application that bootstraps the
\* service once at start-up
SearchNext ==
  \/ Startup
  \/ BootSteps
  \/ SearchSteps

SearchSpec == Init /\ [][SearchNext]_vars

\* the application's bootstrap and administrators setting API keys
KeySteps ==
  \/ SetProviderApiKey
  \/ \E c \in 1..Len(setCalls) : SettingsSet(c)
  \/ \E c \in 1..Len(setCalls) : SetProviderApiKeyPush(c)
  \/ \E c \in 1..Len(setCalls) : SetProviderApiKeyDone(c)

KeyNext ==
  \/ Startup
  \/ BootSteps
  \/ KeySteps

KeySpec == Init /\ [][KeyNext]_vars

\* the application's bootstrap and callers of the per-provider operations
ServiceSteps ==
  \/ ServiceOperation
  \/ \E c \in 1..Len(opCalls) : ServiceSearchDiscovered(c)
  \/ \E c \in 1..Len(opCalls) : AdapterSettle(c)
  \/ DownloadForInstallation
  \/ \E c \in 1..Len(opCalls) : InstallGetProject(c)
  \/ \E c \in 1..Len(opCalls) : InstallDownload(c)

ServiceNext ==
  \/ Startup
  \/ BootSteps
  \/ ServiceSteps

ServiceSpec == Init /\ [][ServiceNext]_vars

\* the adapters' functions applied to upstream payloads
-----------------------------------------------------------------------------
(* Route layer: parseSearchParams and the search it hands to an adapter *)

\* the decimal digits, in order of value
DigitChars == <<"0", "1", "2", "3", "4", "5", "6", "7", "8", "9">>

IsDigit(ch) == \E d \in 1..Len(DigitChars) : DigitChars[d] = ch

DigitValue(ch) == (CHOOSE d \in 1..Len(DigitChars) : DigitChars[d] = ch) - 1

\* parseInt skips leading white space
RECURSIVE TrimStart(_)
TrimStart(text) ==
  IF text = <<>> THEN text
  ELSE IF Head(text) = " " THEN TrimStart(Tail(text))
  ELSE text

\* the digits parseInt consumes: up to the first character that is none
RECURSIVE DigitPrefix(_)
DigitPrefix(text) ==
  IF text = <<>> THEN <<>>
  ELSE IF IsDigit(Head(text)) THEN <<Head(text)>> \o DigitPrefix(Tail(text))
  ELSE <<>>

\* the value of a run of digits in radix 10, most significant first
RECURSIVE DigitsValue(_, _)
DigitsValue(acc, digits) ==
  IF digits = <<>> THEN acc
  ELSE DigitsValue(acc * Len(DigitChars) + DigitValue(Head(digits)), Tail(digits))

\* parseInt(text, 10) of a text given as its characters: an optional sign,
\* then digits; <<>> stands for NaN, <<n>> for the number n
ParseInt(text) ==
  LET trimmed  == TrimStart(text)
      negative == IF trimmed = <<>> THEN FALSE ELSE Head(trimmed) = "-"
      signed   == IF trimmed = <<>> THEN FALSE ELSE Head(trimmed) \in {"-", "+"}
      digits   == DigitPrefix(IF signed THEN Tail(trimmed) ELSE trimmed)
  IN IF digits = <<>> THEN <<>>
     ELSE IF negative THEN <<0 - DigitsValue(0, digits)>>
     ELSE <<DigitsValue(0, digits)>>

\* parsed || fallback: NaN and 0 are falsy
OrFallback(parsed, fallback) ==
  IF parsed = <<>> THEN fallback
  ELSE IF parsed[1] = 0 THEN fallback
  ELSE parsed[1]

\* a query value is truthy when it is given and not the empty string
NonEmpty(value) == IF value = <<>> THEN FALSE ELSE value[1] # <<>>

\* texts a client may put in page, pageSize and limit: "", "0", "1", "3",
\* "-1", "-3", "60", "x", "2x", " 2"
QueryTexts ==
  { <<>>, <<"0">>, <<"1">>, <<"3">>, <<"-", "1">>, <<"-", "3">>, <<"6", "0">>,
    <<"x">>, <<"2", "x">>, <<" ", "2">> }

\* req.query: each of the three keys is missing (<<>>) or carries a text
Queries ==
  [page : {<<>>} \cup { <<t>> : t \in QueryTexts },
   pageSize : {<<>>} \cup { <<t>> : t \in QueryTexts },
   limit : {<<>>} \cup { <<t>> : t \in QueryTexts }]

\* parseSearchParams(query), its page and pageSize
parseSearchParams(query) ==
  LET size == IF NonEmpty(query.pageSize) THEN query.pageSize ELSE query.limit
  IN [page |-> IF query.page = <<>> THEN Absent
               ELSE OrFallback(ParseInt(query.page[1]), 1),
      pageSize |-> IF NonEmpty(size) THEN OrFallback(ParseInt(size[1]), 50) ELSE Absent]

\* GET /providers/:providerId/search: the query is parsed and the search
\* handed to the adapter, which builds its upstream request from it
ApplySearchRoute ==
  /\ adapterCalls = <<>>
  /\ \E providerId \in KnownIds, query \in Queries :
       LET params == parseSearchParams(query)
       IN adapterCalls' = <<[fn |-> "searchRoute", providerId |-> providerId,
                             input |-> query, params |-> params,
                             request |-> SearchRequest(providerId, params)]>>
  /\ UNCHANGED <<initialized, providers, adapters, settings, initCalls, setCalls,
                 discoveries, searches, opCalls,
                 clientVars>>

AdapterNext ==
  \/ ApplyTransformProject
  \/ ApplyTransformMod
  \/ ApplySearchProjects
  \/ ApplyModtaleDependencies
  \/ ApplyCurseForgeDependencies
  \/ ApplyInitialize
  \/ ApplySearchRoute

AdapterSpec == Init /\ [][AdapterNext]_vars

\* the web client: cached provider lookups and configuration
CacheNext ==
  \/ GetCachedProviders
  \/ \E l \in 1..Len(cacheLookups) : BackendProviders(l)
  \/ \E l \in 1..Len(cacheLookups) : LookupResolve(l)
  \/ ClearProvidersCache
  \/ ConfigureProvider
  \/ \E c \in 1..Len(configures) : BackendConfigure(c)
  \/ \E c \in 1..Len(configures) : ConfigureResumed(c)
  \/ \E c \in 1..Len(configures) : BackendReload(c)
  \/ \E c \in 1..Len(configures) : ReloadDone(c)

CacheSpec == Init /\ [][CacheNext]_vars

\* the web client: a user browsing and searching
StoreNext ==
  \/ SetSelectedProvider
  \/ SetSearchPage
  \/ StoreSearch
  \/ \E s \in 1..Len(storeSearches) : StoreSearchResolve(s)

StoreSpec == Init /\ [][StoreNext]_vars

\* the continuation of `await Promise.all(..)` is a queued microtask: the
\* event loop runs it once the promise has settled
SearchJoin == \E s \in 1..Len(searches) : SearchAllDone(s)

FairSearchSpec == SearchSpec /\ WF_vars(SearchJoin)

\* the bootstrap on its own
Next ==
  \/ Initialize
  \/ BootSteps

Spec == Init /\ [][Next]_vars

-----------------------------------------------------------------------------
(* Properties of searchAll *)

\* the providers a searchAll call found configured, in registry order
RECURSIVE KeepConfigured(_)
KeepConfigured(view) ==
  IF view = <<>> THEN <<>>
  ELSE IF Head(view).configured THEN <<Head(view)>> \o KeepConfigured(Tail(view))
       ELSE KeepConfigured(Tail(view))

ConfiguredAtCall(q) == KeepConfigured(q.atCall)

\* the page / pageSize a call asked for, with the defaults for absent ones
RequestedPage(q) == IF q.params.page = Absent THEN 1 ELSE q.params.page
RequestedPageSize(q) == IF q.params.pageSize = Absent THEN 50 ELSE q.params.pageSize

RECURSIVE SumSucceeded(_)
SumSucceeded(branches) ==
  IF branches = <<>> THEN 0
  ELSE (IF Head(branches).failed THEN 0 ELSE Head(branches).returned.total)
       + SumSucceeded(Tail(branches))

\* C1: searchAll never raises, whichever adapter calls raise; it returns
\* one entry per configured provider, an empty entry with the provider's
\* own id and the requested page / pageSize for each failed provider, the
\* adapter's own response for each succeeding one, and
\* totalAcrossProviders is the sum of the succeeding providers' totals.
C1_AggregationIsolation ==
  \A s \in 1..Len(searches) :
    LET q == searches[s]
        N == Len(ConfiguredAtCall(q))
    IN /\ q.pc # "raised"
       /\ q.pc = "returned" =>
            /\ Len(q.results) = N
            /\ \A i \in 1..N :
                 IF q.branches[i].failed
                 THEN q.results[i] = [projects |-> <<>>, total |-> 0, hasMore |-> FALSE,
                                      providerId |-> ConfiguredAtCall(q)[i].id,
                                      page |-> RequestedPage(q),
                                      pageSize |-> RequestedPageSize(q)]
                 ELSE q.results[i] = q.branches[i].returned
            /\ q.totalAcrossProviders = SumSucceeded(q.branches)

\* a call over two providers returned with exactly one of them failed and
\* the other reporting a positive total, for a requested page and size
C1_Witness ==
  \E s \in 1..Len(searches) :
    LET q == searches[s]
    IN /\ q.pc = "returned"
       /\ Len(q.branches) = 2
       /\ q.params.page # Absent
       /\ q.branches[1].failed
       /\ ~q.branches[2].failed
       /\ q.branches[2].returned.total > 0

AllSettled(s) ==
  /\ s \in 1..Len(searches)
  /\ \A b \in 1..Len(searches[s].branches) : BranchSettled(searches[s].branches[b])

SearchOver(s) ==
  /\ s \in 1..Len(searches)
  /\ searches[s].pc # "pending"

\* C2: searchAll is over (returned or raised) only when every adapter call
\* of it has settled, and once all have settled it eventually returns.
C2_WaitForAll ==
  /\ [](\A s \in 1..MaxSearches : SearchOver(s) => AllSettled(s))
  /\ \A s \in 1..MaxSearches : AllSettled(s) ~> SearchOver(s)

\* a call returned in which the branch that settled first had failed
C2_Witness ==
  \E s \in 1..Len(searches) :
    LET q == searches[s]
    IN /\ q.pc = "returned"
       /\ Len(q.branches) = 2
       /\ q.branches[q.settleOrder[1]].failed

\* C3: a searchAll that finds no configured adapter returns
\* {results: [], totalAcrossProviders: 0} at once and calls searchProjects
\* on no adapter.
C3_EmptyRegistry ==
  \A s \in 1..Len(searches) :
    LET q == searches[s]
    IN ConfiguredAtCall(q) = <<>> =>
         /\ q.pc = "returned"
         /\ q.results = <<>>
         /\ q.totalAcrossProviders = 0
         /\ q.branches = <<>>

\* a call found both adapters registered and neither configured
C3_Witness ==
  \E s \in 1..Len(searches) :
    LET q == searches[s]
    IN /\ Len(q.atCall) = 2
       /\ ConfiguredAtCall(q) = <<>>
       /\ q.pc = "returned"

\* C4: the results are in registry iteration order of the providers the
\* call found configured, whatever the order the adapter calls settled in.
C4_RegistryOrder ==
  \A s \in 1..Len(searches) :
    LET q == searches[s]
    IN q.pc = "returned" =>
         [i \in 1..Len(q.results) |-> q.results[i].providerId]
           = [i \in 1..Len(ConfiguredAtCall(q)) |-> ConfiguredAtCall(q)[i].id]

\* a call returned two entries after the second provider settled first
C4_Witness ==
  \E s \in 1..Len(searches) :
    LET q == searches[s]
    IN /\ q.pc = "returned"
       /\ Len(q.results) = 2
       /\ q.settleOrder = <<2, 1>>

\* C5: a searchAll call invokes searchProjects exactly once on each
\* adapter configured when it was called, in no case on another adapter,
\* and never a second time after a failure.
C5_ExactlyOnce ==
  \A s \in 1..Len(searches) :
    LET q == searches[s]
    IN /\ [b \in 1..Len(q.branches) |-> q.branches[b].inst]
            = [i \in 1..Len(ConfiguredAtCall(q)) |-> ConfiguredAtCall(q)[i].inst]
       /\ \A b \in 1..Len(q.branches) : q.branches[b].calls = 1

\* a call that found one adapter configured and the other not has
\* returned after its one adapter call failed
C5_Witness ==
  \E s \in 1..Len(searches) :
    LET q == searches[s]
    IN /\ q.pc = "returned"
       /\ Len(q.atCall) = 2
       /\ Len(q.branches) = 1
       /\ q.branches[1].failed

-----------------------------------------------------------------------------
(* Properties of the service *)

\* the registry entries a call found under the provider id it names
EntriesAtCall(q) == SelectSeq(q.atCall, LAMBDA e : e.id = q.providerId)

\* C6: every per-provider operation, downloadForInstallation included,
\* raises "not found" for a provider id the registry does not hold and
\* "not configured" for an adapter whose isConfigured() is false, and in
\* both cases invokes no adapter method.
C6_SharedPrecondition ==
  \A c \in 1..Len(opCalls) :
    LET q == opCalls[c]
    IN /\ EntriesAtCall(q) = <<>> =>
            q.pc = "raised" /\ q.error = "not found" /\ q.calls = <<>>
       /\ (EntriesAtCall(q) # <<>> /\ ~EntriesAtCall(q)[1].configured) =>
            q.pc = "raised" /\ q.error = "not configured" /\ q.calls = <<>>

\* with two providers registered and only the other one configured, a
\* download for installation was refused
C6_Witness ==
  \E c \in 1..Len(opCalls) :
    LET q == opCalls[c]
    IN /\ q.op = "downloadForInstallation"
       /\ Len(q.atCall) = 2
       /\ Len(ConfiguredAtCall(q)) = 1
       /\ EntriesAtCall(q) # <<>>
       /\ ~EntriesAtCall(q)[1].configured
       /\ q.pc = "raised"

\* C7: an initialize() call made after an earlier call has returned is a
\* no-op: it returns at once, registers and constructs no adapter, starts
\* no settings read and no adapter initialize, and sets nothing.
C7_InitializeIdempotent ==
  [][ (/\ Len(initCalls') = Len(initCalls) + 1
       /\ \E c \in 1..Len(initCalls) : initCalls[c].pc = "returned")
      => (/\ initCalls'[Len(initCalls')].pc = "returned"
          /\ providers' = providers
          /\ adapters' = adapters
          /\ discoveries' = discoveries
          /\ initialized' = initialized
          /\ settings' = settings) ]_vars

\* a second call returned as a no-op after the first had configured an
\* adapter and returned
C7_Witness ==
  /\ Len(initCalls) = 2
  /\ initCalls[1].pc = "returned"
  /\ ~initCalls[1].noop
  /\ initCalls[2].pc = "returned"
  /\ initCalls[2].noop
  /\ Len(adapters) = 2
  /\ \E i \in 1..Len(adapters) : isConfigured(adapters[i])

\* the keys that calls other than c, for the same provider, have persisted
OtherKeys(c) ==
  { setCalls[o].apiKey : o \in { o \in 1..Len(setCalls) :
                                  /\ o # c
                                  /\ setCalls[o].providerId = setCalls[c].providerId
                                  /\ setCalls[o].pc \in {"stored", "initialize", "returned"} } }

SetOrder(c) ==
  /\ setCalls[c].provider = 0 =>
       setCalls[c].pc = "raised" /\ setCalls[c].steps = <<>>
  /\ setCalls[c].pc = "returned" =>
       setCalls[c].steps = <<"settings.set", "setApiKey", "initialize">>

FellBack(q) ==
  /\ q.op = "downloadForInstallation"
  /\ q.project # <<>>
  /\ Find(q.project[1].versions, q.versionId) = <<>>
  /\ q.project[1].latestVersion # <<>>

\* C9: a downloadForInstallation that fell back to latestVersion returns
\* metadata whose versionId is latestVersion.id and whose versionName is
\* latestVersion.version.
C9_FallbackMetadata ==
  \A c \in 1..Len(opCalls) :
    LET q == opCalls[c]
    IN (FellBack(q) /\ q.pc = "returned") =>
         /\ q.metadata[1].versionId = q.project[1].latestVersion[1].id
         /\ q.metadata[1].versionName = q.project[1].latestVersion[1].version

\* C10: a downloadForInstallation whose project has neither the requested
\* version nor a latest version raises, and adapter.downloadVersion is not
\* called.
C10_NoVersion ==
  \A c \in 1..Len(opCalls) :
    LET q == opCalls[c]
    IN (/\ q.op = "downloadForInstallation"
        /\ q.project # <<>>
        /\ Find(q.project[1].versions, q.versionId) = <<>>
        /\ q.project[1].latestVersion = <<>>)
       => /\ q.pc = "raised"
          /\ q.error = "version not found"
          /\ \A i \in 1..Len(q.calls) : q.calls[i].method # "downloadVersion"

\* a download for installation got a project without versions and raised
C10_Witness ==
  \E c \in 1..Len(opCalls) :
    LET q == opCalls[c]
    IN /\ q.op = "downloadForInstallation"
       /\ q.project # <<>>
       /\ q.project[1].versions = <<>>
       /\ q.pc = "raised"
       /\ q.calls = <<[method |-> "getProject", versionId |-> NoVersion]>>

-----------------------------------------------------------------------------
(* Properties of the adapters' transforms *)

\* the projects the transforms produced
IsTransform(q) == q.fn \in {"transformProject", "transformMod"}

\* the properties of the payload that a transform was given without
AbsentFields(q) ==
  { f \in (IF q.fn = "transformProject" THEN ModtaleFields ELSE CurseForgeFields) :
      ~Present(q.input[f]) }

\* C11: every project either transform produces has a classification in
\* {PLUGIN, DATA, ART, SAVE, MODPACK}, whatever the upstream sent.
C11_ClassificationClosed ==
  \A c \in 1..Len(adapterCalls) :
    LET q == adapterCalls[c]
    IN (IsTransform(q) /\ q.output.ok) =>
         q.output.value[1].classification \in UnifiedClassifications

\* C13: a project transform given a payload that lacks one upstream
\* property does not raise.
C13_TolerantTransforms ==
  \A c \in 1..Len(adapterCalls) :
    LET q == adapterCalls[c]
    IN (IsTransform(q) /\ Cardinality(AbsentFields(q)) = 1) => q.output.ok

\* C18: in every project either transform produces, latestVersion is
\* versions[0] when versions is not empty and absent when it is.
C18_LatestVersion ==
  \A c \in 1..Len(adapterCalls) :
    LET q == adapterCalls[c]
    IN (IsTransform(q) /\ q.output.ok) =>
         LET project == q.output.value[1]
         IN IF project.versions = <<>>
            THEN project.latestVersion = <<>>
            ELSE project.latestVersion = <<project.versions[1]>>

\* transformMod produced a project with two different versions
C18_Witness ==
  \E c \in 1..Len(adapterCalls) :
    LET q == adapterCalls[c]
    IN /\ q.fn = "transformMod"
       /\ q.output.ok
       /\ Len(q.output.value[1].versions) = 2
       /\ q.output.value[1].versions[1] # q.output.value[1].versions[2]
       /\ Present(q.output.value[1].latestVersion)
\* C12: a searchProjects whose upstream call succeeded with a body of no
\* recognised shape returns the adapter's empty result and does not raise.
C12_UnrecognizedShape ==
  \A c \in 1..Len(adapterCalls) :
    LET q == adapterCalls[c]
    IN (q.fn = "searchProjects" /\ q.reply.shape = "other") =>
         /\ q.output.ok
         /\ q.output.value.projects = <<>>
         /\ q.output.value.total = 0
         /\ ~q.output.value.hasMore
         /\ q.output.value.providerId = q.providerId

\* C14: for a page p >= 1 and a page size s within the provider's maximum,
\* the request's native offset is (p-1)*s, and when the provider reports
\* back the native index it was asked for, the response's page is p.
C14_PaginationRoundTrip ==
  \A c \in 1..Len(adapterCalls) :
    LET q == adapterCalls[c]
    IN (/\ q.fn = "searchProjects"
        /\ q.input.page # Absent
        /\ q.input.pageSize # Absent
        /\ q.input.pageSize <= 50
        /\ q.reply \in RepliesTo(q.providerId, q.request))
       => /\ NativeOffset(q.providerId, q.request) = (q.input.page - 1) * q.input.pageSize
          /\ q.output.ok
          /\ q.output.value.page = q.input.page
\* the dependencies the upstream listed for a CurseForge call
UpstreamDependencies(q) ==
  IF Present(q.reply.dependencies) THEN q.reply.dependencies[1] ELSE <<>>

\* C16: getVersionDependencies never raises; on an upstream error (failed
\* request, missing credential) it returns the empty sequence; on
\* CurseForge the result has one entry per upstream dependency, labelled
\* "Mod #<id>" where the name lookup failed.
C16_BestEffortDependencies ==
  \A c \in 1..Len(adapterCalls) :
    LET q == adapterCalls[c]
    IN q.fn = "getVersionDependencies" =>
         /\ q.output.ok
         /\ (~q.hasKey \/ ~q.reply.ok) => q.output.value = <<>>
         /\ (q.providerId = "curseforge" /\ q.hasKey /\ q.reply.ok) =>
              /\ Len(q.output.value) = Len(UpstreamDependencies(q))
              /\ \A i \in 1..Len(q.output.value) :
                   /\ q.output.value[i].projectId = UpstreamDependencies(q)[i].modId
                   /\ ~q.lookups[i] =>
                        q.output.value[i].projectName
                          = <<"Mod #", UpstreamDependencies(q)[i].modId>>

\* a CurseForge call listed two dependencies, the first resolved and the
\* second labelled by its id
C16_Witness ==
  \E c \in 1..Len(adapterCalls) :
    LET q == adapterCalls[c]
    IN /\ q.fn = "getVersionDependencies"
       /\ q.providerId = "curseforge"
       /\ Len(q.output.value) = 2
       /\ q.output.value[1].projectName = <<"Lib">>
       /\ q.output.value[2].projectName = <<"Mod #", "22">>

\* C17: in every dependency either adapter produces, required is true
\* exactly when type is 'required'.
C17_RequiredIffType ==
  \A c \in 1..Len(adapterCalls) :
    LET q == adapterCalls[c]
    IN q.fn = "getVersionDependencies" =>
         \A i \in 1..Len(q.output.value) :
           q.output.value[i].required <=> (q.output.value[i].type = "required")

\* a CurseForge call produced a required dependency and one of another
\* relation type
C17_Witness ==
  \E c \in 1..Len(adapterCalls) :
    LET q == adapterCalls[c]
    IN /\ q.fn = "getVersionDependencies"
       /\ q.providerId = "curseforge"
       /\ Len(q.output.value) = 2
       /\ q.output.value[1].required
       /\ q.output.value[2].type = "optional"
       /\ UpstreamDependencies(q)[2].relationType = 5
-----------------------------------------------------------------------------
(* Properties of the adapters' credentials *)

\* the calls that have pushed their key into the adapter
Pushed(c) == setCalls[c].pc \in {"initialize", "returned"}

\* C15: adapter.setApiKey installs the key at once and does not wait for
\* the discovery it starts; that discovery never rejects, whatever the
\* upstream answers, so nothing is raised to the caller then or later.
C15_FireAndForget ==
  \A c \in 1..Len(setCalls) :
    /\ setCalls[c].pc = "stored" => setCalls[c].background = 0
    /\ Pushed(c) =>
         /\ isConfigured(adapters[setCalls[c].provider])
         /\ setCalls[c].background # 0 =>
              /\ discoveries[setCalls[c].background].inst = setCalls[c].provider
              /\ discoveries[setCalls[c].background].stage \in {"games", "categories", "done"}

\* a call on curseforge returned while the discovery its setApiKey started
\* was still waiting for the games reply, and another call's background
\* discovery ended after a failed request left the adapter on the known
\* game id without categories
C15_Witness ==
  \E c, e \in 1..Len(setCalls) :
    /\ setCalls[c].pc = "returned"
    /\ setCalls[c].background # 0
    /\ discoveries[setCalls[c].background].stage = "games"
    /\ Pushed(e)
    /\ setCalls[e].background # 0
    /\ discoveries[setCalls[e].background].stage = "done"
    /\ adapters[setCalls[e].provider].hytaleGameId = HYTALE_GAME_ID
    /\ adapters[setCalls[e].provider].categories = <<>>
-----------------------------------------------------------------------------
(* Properties of the service's forwarding *)

\* C19: ModProviderService.search on one provider ends as the adapter's
\* searchProjects ended: a failed upstream request raises to the caller
\* with no result, nothing is substituted for it, and a success returns
\* the adapter's response unchanged.
C19_DirectSearchPropagates ==
  \A c \in 1..Len(opCalls) :
    LET q == opCalls[c]
    IN (q.op = "search" /\ q.settled # <<>>) =>
         IF q.settled[1].ok
         THEN q.pc = "returned" /\ q.result = <<q.settled[1].value>>
         ELSE q.pc = "raised" /\ q.error = "adapter" /\ q.result = <<>>

\* a search on a configured provider whose upstream request failed
C19_Witness ==
  \E c \in 1..Len(opCalls) :
    LET q == opCalls[c]
    IN /\ q.op = "search"
       /\ q.calls = <<[method |-> "searchProjects", versionId |-> NoVersion]>>
       /\ q.settled # <<>>
       /\ ~q.settled[1].ok
       /\ q.pc = "raised"

\* C20: getTags on a configured provider whose adapter has no getTags
\* returns an empty list without calling the adapter; otherwise it ends as
\* the adapter's getTags ended, with exactly the tags it returned.
C20_GetTags ==
  \A c \in 1..Len(opCalls) :
    LET q == opCalls[c]
    IN (/\ q.op = "getTags"
        /\ EntriesAtCall(q) # <<>>
        /\ EntriesAtCall(q)[1].configured) =>
         IF ~Implements(q.providerId, "getTags")
         THEN q.pc = "returned" /\ q.result = <<<<>>>> /\ q.calls = <<>>
         ELSE /\ q.calls = <<[method |-> "getTags", versionId |-> NoVersion]>>
              /\ q.settled # <<>> =>
                   IF q.settled[1].ok
                   THEN q.pc = "returned" /\ q.result = <<q.settled[1].value>>
                   ELSE q.pc = "raised" /\ q.result = <<>>

\* getTags on configured CurseForge returned the empty list
C20_Witness ==
  \E c \in 1..Len(opCalls) :
    LET q == opCalls[c]
    IN /\ q.op = "getTags"
       /\ q.providerId = "curseforge"
       /\ EntriesAtCall(q) # <<>>
       /\ EntriesAtCall(q)[1].configured
       /\ q.pc = "returned"
       /\ q.result = <<<<>>>>
       /\ q.calls = <<>>
-----------------------------------------------------------------------------
(* Properties of adapter.initialize *)

\* C21: initialize called again with the same config against the same
\* upstream leaves the adapter as one call left it, and called again with
\* another credential leaves the adapter in the state that credential
\* alone produces (key, game id, category list, classification map).
C21_InitializeIdempotent ==
  \A i \in 1..Len(adapterCalls) :
    LET q == adapterCalls[i]
    IN q.fn = "initialize" =>
         /\ (q.key1 = q.key2 /\ q.up1 = q.up2) => q.twice = q.once
         /\ (Truthy(q.key2) /\ q.key2 # q.key1) =>
              q.twice = InitializeRun(NewProvider(q.providerId), q.key2, q.up2)

\* the first half alone: same config, same upstream
InitializeSameConfig ==
  \A i \in 1..Len(adapterCalls) :
    LET q == adapterCalls[i]
    IN (q.fn = "initialize" /\ q.key1 = q.key2 /\ q.up1 = q.up2) => q.twice = q.once
-----------------------------------------------------------------------------
(* Properties of the unified search response *)

\* the page size a caller asked for, 50 when none was given
Requested(q) == IF q.input.pageSize = Absent THEN 50 ELSE q.input.pageSize

\* C22: hasMore of a search response is computed from what the upstream
\* says of completeness: not `last` for Modtale's page envelope, array
\* length >= requested page size (default 50) for its bare array, the
\* upstream's own flag for its keyed object, index + resultCount <
\* totalCount for CurseForge; it is false in the empty result.
C22_HasMore ==
  \A c \in 1..Len(adapterCalls) :
    LET q == adapterCalls[c]
    IN (q.fn = "searchProjects" /\ q.output.ok) =>
         q.output.value.hasMore =
           CASE q.reply.shape = "content"  -> ~q.reply.flag
             [] q.reply.shape = "array"    -> Len(q.reply.items) >= Requested(q)
             [] q.reply.shape = "projects" -> q.reply.flag
             [] q.reply.shape = "page"     ->
                  q.reply.index + q.reply.resultCount < q.reply.totalCount
             [] OTHER -> FALSE

\* a bare array holding exactly the requested number of projects was
\* reported as having more
C22_Witness ==
  \E c \in 1..Len(adapterCalls) :
    LET q == adapterCalls[c]
    IN /\ q.fn = "searchProjects"
       /\ q.reply.shape = "array"
       /\ q.input.pageSize # Absent
       /\ Len(q.reply.items) = q.input.pageSize
       /\ q.output.ok
       /\ q.output.value.hasMore
-----------------------------------------------------------------------------
(* Properties of the download for installation *)

\* the version ids adapter.downloadVersion was called with
DownloadedIds(q) ==
  { q.calls[i].versionId : i \in { j \in 1..Len(q.calls) : q.calls[j].method = "downloadVersion" } }

\* C23: downloadForInstallation opens the stream of the version it
\* resolved: the id passed to adapter.downloadVersion is the id of the
\* version whose name and size the metadata carries, also after the
\* fallback to latestVersion.
C23_DownloadsResolved ==
  \A c \in 1..Len(opCalls) :
    LET q == opCalls[c]
    IN (q.op = "downloadForInstallation" /\ q.version # <<>>) =>
         /\ DownloadedIds(q) = {q.version[1].id}
         /\ q.pc = "returned" =>
              /\ q.metadata[1].versionName = q.version[1].version
              /\ q.metadata[1].fileSize = q.version[1].fileSize
-----------------------------------------------------------------------------
(* Properties of overlapping bootstraps *)

\* the adapter objects constructed for a provider id
InstancesOf(id) == { i \in 1..Len(adapters) : adapters[i].id = id }

\* C24: however initialize() calls overlap, each known provider's adapter
\* is constructed and registered once, so an adapter that holds its API
\* key is always the one the registry serves.
C24_RegisteredOnce ==
  \A id \in KnownIds :
    /\ Cardinality(InstancesOf(id)) <= 1
    /\ \A i \in InstancesOf(id) :
         isConfigured(adapters[i]) => getProvider(providers, id) = i

\* the second half alone: no adapter holding a key is out of the registry
KeyedAdapterServed ==
  \A id \in KnownIds :
    \A i \in InstancesOf(id) :
      isConfigured(adapters[i]) => getProvider(providers, id) = i
-----------------------------------------------------------------------------
(* Properties of overlapping discoveries *)

\* the game ids only a successful discovery sets: those the games list
\* can hold
FoundIds == { reply.hytale : reply \in GamesReplies } \ {NoGame}

\* a step in which run d ends on a failed games request
FailedRun(d) ==
  /\ d \in 1..Len(discoveries')
  /\ discoveries[d].stage = "games"
  /\ discoveries'[d].stage = "done"

\* C25: with the discoveries of setApiKey and initialize overlapping on
\* the CurseForge adapter, a discovery that fails leaves a game id that a
\* successful discovery found in place, so that after both settled the id
\* is the found one whenever one of them succeeded.
C25_DiscoveryKeepsFound ==
  [][ \A d \in 1..Len(discoveries) :
        (FailedRun(d) /\ adapters[discoveries[d].inst].hytaleGameId \in FoundIds)
        => adapters'[discoveries[d].inst].hytaleGameId
             = adapters[discoveries[d].inst].hytaleGameId ]_vars
-----------------------------------------------------------------------------
(* Properties of the persisted credential *)

\* the setProviderApiKey calls made for a provider
SetCallsOn(id) == { c \in 1..Len(setCalls) : setCalls[c].providerId = id }

\* C26: once every setProviderApiKey call on a provider has returned, the
\* key its adapter holds is the key stored under '<providerId>.apiKey',
\* however the calls overlapped.
C26_StoredIsLive ==
  \A id \in KnownIds :
    (/\ SetCallsOn(id) # {}
     /\ \A c \in SetCallsOn(id) : setCalls[c].pc = "returned")
    => adapters[getProvider(providers, id)].apiKey = settings[id]
\* a step in which the settings.set of call c fails
SetFails(c) ==
  /\ c \in 1..Len(setCalls')
  /\ ~setCalls[c].failed
  /\ setCalls'[c].failed

\* C27: when settings.set fails inside setProviderApiKey the call raises,
\* neither adapter.setApiKey nor adapter.initialize is called, and the
\* adapters are as they were: credential and isConfigured() unchanged.
C27_FailedPersistence ==
  /\ [](\A c \in 1..Len(setCalls) :
          setCalls[c].failed =>
            /\ setCalls[c].pc = "raised"
            /\ setCalls[c].steps = <<"settings.set">>
            /\ setCalls[c].background = 0
            /\ setCalls[c].wait = 0)
  /\ [][ \A c \in 1..Len(setCalls) :
           SetFails(c) => (adapters' = adapters /\ discoveries' = discoveries) ]_vars

\* a call whose settings.set failed raised while the adapter of its
\* provider is still without a key
C27_Witness ==
  \E c \in 1..Len(setCalls) :
    /\ setCalls[c].failed
    /\ setCalls[c].pc = "raised"
    /\ setCalls[c].provider # 0
    /\ ~isConfigured(adapters[setCalls[c].provider])
-----------------------------------------------------------------------------
(* Properties of the web client *)

\* C28: a getCachedProviders call made once a configureProvider has
\* completed returns a list fetched after that configuration took effect,
\* whatever lookups and clears overlapped with it; and the cache only ever
\* holds the list of a lookup that succeeded.
C28_FreshAfterConfigure ==
  /\ \A l \in 1..Len(cacheLookups) :
       cacheLookups[l].pc = "returned" =>
         cacheLookups[l].result[1].configuredAsOf >= cacheLookups[l].floor
  /\ providersCache # <<>> =>
       \E l \in 1..Len(cacheLookups) :
         cacheLookups[l].response.ok /\ cacheLookups[l].response.list = providersCache

\* the searches in flight
InFlight == { s \in 1..Len(storeSearches) : storeSearches[s].pc = "request" }

\* the results on display
Displayed ==
  { store.searchResults[i] : i \in 1..Len(store.searchResults) }
    \cup { store.multiSearchResults[i] : i \in 1..Len(store.multiSearchResults) }

\* C29: when searches overlapped and all have settled, the results on
\* display are those of the search issued last (if it succeeded); at most
\* one of searchResults and multiSearchResults is set; searchLoading is
\* false only when no search is in flight.
C29_LatestSearchWins ==
  /\ (/\ storeSearches # <<>>
      /\ InFlight = {}
      /\ storeSearches[Len(storeSearches)].pc = "returned")
     => \A r \in Displayed : r.request = Len(storeSearches)
  /\ store.searchResults = <<>> \/ store.multiSearchResults = <<>>
  /\ ~store.searchLoading => InFlight = {}

\* the first part alone
LatestDisplayed ==
  (/\ storeSearches # <<>>
   /\ InFlight = {}
   /\ storeSearches[Len(storeSearches)].pc = "returned")
  => \A r \in Displayed : r.request = Len(storeSearches)

\* the second part alone
OneResultField == store.searchResults = <<>> \/ store.multiSearchResults = <<>>

-----------------------------------------------------------------------------
(* Properties of the route layer *)

\* the searches that came in through the route
RouteSearches ==
  { c \in 1..Len(adapterCalls) : adapterCalls[c].fn = "searchRoute" }

\* what the claim asks of one routed search: page and pageSize, where
\* parseSearchParams set them, are at least 1; the offset sent upstream is
\* not negative; the pageSize CurseForge is sent lies in 1..50
InRange(q) ==
  /\ q.params.page # Absent => q.params.page >= 1
  /\ q.params.pageSize # Absent => q.params.pageSize >= 1
  /\ IF q.providerId = "modtale"
     THEN q.request.page >= 0
     ELSE q.request.index >= 0 /\ q.request.pageSize \in 1..50

\* C30: for every query parseSearchParams accepts, the unified page and
\* pageSize are at least 1, the provider-native offset sent upstream
\* (Modtale page, CurseForge index) is never negative, and the pageSize
\* sent to CurseForge is between 1 and 50.
C30_NonNegativeOffset ==
  \A c \in RouteSearches : InRange(adapterCalls[c])

\* a text with a minus sign among the three query values
Signed(query) ==
  \E value \in {query.page, query.pageSize, query.limit} :
    IF value = <<>> THEN FALSE
    ELSE \E i \in 1..Len(value[1]) : value[1][i] = "-"

\* the same for the queries that carry no minus sign
UnsignedInRange ==
  \A c \in RouteSearches :
    ~Signed(adapterCalls[c].input) => InRange(adapterCalls[c])
====
